---------------------------- MODULE Spec2Model ----------------------------
(***************************************************************************)
(* golinkinterceptor: the capture pipeline (cmd/interceptor), the replay   *)
(* pipeline (cmd/executor) and the sqlite cache file they share.           *)
(*                                                                         *)
(* Text is modelled as a sequence of lexemes: a lexeme is an indivisible   *)
(* run of characters ("packagefile", " ", "=", "/cache/", "main.a").  The  *)
(* string functions of the code (strings.Split, strings.Cut,               *)
(* strings.HasPrefix, strings.Contains, the regular expressions of the     *)
(* trace parser, json.Marshal, SQL's ||) are computed on these sequences   *)
(* the way the code computes them on bytes.                                *)
(***************************************************************************)
EXTENDS Integers, Sequences, FiniteSets, TLC

(***************************************************************************)
(* Bounds of the model.                                                    *)
(***************************************************************************)
MaxCaptures == 2
MaxReplays == 1
MaxLookups == 2
MaxArgs == 3
MaxManifest == 3
MaxTags == 2
MaxLines == 4

(***************************************************************************)
(* Strings.                                                                *)
(***************************************************************************)
Space == " "

\* Lexemes made of word characters only (the regular expressions' \w).
WordChars ==
    {"WORK", "EOF", "packagefile", "modinfo", "main", "fmt", "alt", "bad",
     "out", "cfg", "cat", "cd", "x", "internal", "PLACEHOLDER", "A", "B",
     "FOO", "BAR"}

IsWord(c) == c \in WordChars

RECURSIVE IndexFrom(_, _, _)
IndexFrom(s, c, i) ==
    IF i > Len(s) THEN 0
    ELSE IF s[i] = c THEN i
    ELSE IndexFrom(s, c, i + 1)

\* strings.Index for a one-lexeme separator: first position, 0 when absent.
Index(s, c) == IndexFrom(s, c, 1)

\* strings.Cut(s, sep)
Cut(s, sep) ==
    LET i == Index(s, sep)
    IN  IF i = 0
        THEN [before |-> s, after |-> <<>>, ok |-> FALSE]
        ELSE [before |-> SubSeq(s, 1, i - 1),
              after |-> SubSeq(s, i + 1, Len(s)), ok |-> TRUE]

\* strings.Split(s, sep): never empty, Split("", sep) = [""].
RECURSIVE Split(_, _)
Split(s, sep) ==
    LET c == Cut(s, sep)
    IN  IF c.ok THEN <<c.before>> \o Split(c.after, sep) ELSE <<s>>

\* strings.HasPrefix(s, prefix)
HasPrefix(s, prefix) ==
    Len(s) >= Len(prefix) /\ SubSeq(s, 1, Len(prefix)) = prefix

\* strings.Contains(s, sub)
Contains(s, sub) ==
    \E i \in 1..(Len(s) + 1) :
        i + Len(sub) - 1 <= Len(s) /\ SubSeq(s, i, i + Len(sub) - 1) = sub

\* Length of the longest run of lexemes satisfying the class, from position i.
RECURSIVE WordRun(_, _)
WordRun(s, i) ==
    IF i > Len(s) \/ ~IsWord(s[i]) THEN 0 ELSE 1 + WordRun(s, i + 1)

RECURSIVE SpaceRun(_, _)
SpaceRun(s, i) ==
    IF i > Len(s) \/ s[i] # Space THEN 0 ELSE 1 + SpaceRun(s, i + 1)

RECURSIVE NonSpaceRun(_, _)
NonSpaceRun(s, i) ==
    IF i > Len(s) \/ s[i] = Space THEN 0 ELSE 1 + NonSpaceRun(s, i + 1)

\* Byte-wise order of the strings: lexemes compare by Ord, strings
\* lexicographically (a proper prefix is smaller).
Ord(c) ==
    CASE c = "A" -> 1
      [] c = "B" -> 2
      [] OTHER -> 3

RECURSIVE StrLess(_, _)
StrLess(a, b) ==
    IF b = <<>> THEN FALSE
    ELSE IF a = <<>> THEN TRUE
    ELSE IF Ord(Head(a)) # Ord(Head(b)) THEN Ord(Head(a)) < Ord(Head(b))
    ELSE StrLess(Tail(a), Tail(b))


(***************************************************************************)
(* Fingerprint: the tag list of the command line and its serialized form.  *)
(* A Go slice is [isNil, elems]: json.Marshal tells a nil slice ("null")   *)
(* from an empty one.                                                      *)
(***************************************************************************)
NilSlice == [isNil |-> TRUE, elems |-> <<>>]

MakeSlice(elems) == [isNil |-> FALSE, elems |-> elems]

RECURSIVE InsertSorted(_, _)
InsertSorted(x, s) ==
    IF s = <<>> THEN <<x>>
    ELSE IF StrLess(Head(s), x) THEN <<Head(s)>> \o InsertSorted(x, Tail(s))
    ELSE <<x>> \o s

\* A parseConfig that keeps the tags in command-line order.
SlicesSortOmitted(s) == s

\* slices.Sort: ascending, every element kept.
RECURSIVE SlicesSort(_)
SlicesSort(s) ==
    IF s = <<>> THEN <<>> ELSE InsertSorted(Head(s), SlicesSort(Tail(s)))

\* The value of a tags flag: strings.Split(value, ",") then slices.Sort.
SplitTags(value) == MakeSlice(SlicesSort(Split(value, ",")))

RECURSIVE JoinQuoted(_)
JoinQuoted(elems) ==
    IF elems = <<>> THEN <<>>
    ELSE <<"\"">> \o Head(elems) \o <<"\"">> \o
         (IF Len(elems) > 1 THEN <<",">> ELSE <<>>) \o JoinQuoted(Tail(elems))

\* json.Marshal of a []string.
JSONMarshal(buildTags) ==
    IF buildTags.isNil THEN <<"null">>
    ELSE <<"[">> \o JoinQuoted(buildTags.elems) \o <<"]">>

RECURSIVE Unquote(_)
Unquote(parts) ==
    IF parts = <<>> THEN <<>>
    ELSE <<SubSeq(Head(parts), 2, Len(Head(parts)) - 1)>> \o Unquote(Tail(parts))

\* sqlite's jsonb(text): the parsed value of the JSON text.
Jsonb(text) ==
    IF text = <<"null">> THEN [kind |-> "null", elems |-> <<>>]
    ELSE IF Len(text) = 2 THEN [kind |-> "array", elems |-> <<>>]
    ELSE [kind |-> "array",
          elems |-> Unquote(Split(SubSeq(text, 2, Len(text) - 1), ","))]

\* The loop of the interceptor's parseConfig over flag.Arg(i), i < len - 1
\* (positions are 1-based here).
RECURSIVE ScanBuildFlags(_, _, _)
ScanBuildFlags(args, i, config) ==
    IF i > Len(args) - 1 THEN config
    ELSE ScanBuildFlags(args, i + 1,
            IF args[i] = <<"-o">>
            THEN [config EXCEPT !.binaryName = args[i + 1]]
            ELSE IF args[i] \in {<<"-tags">>, <<"--tags">>}
            THEN [config EXCEPT !.buildTags = SplitTags(args[i + 1])]
            ELSE config)

\* A parseConfig without the check of the output name.
InterceptorParseConfigNoCheck(args) ==
    IF Len(args) < 2 \/ args[1] # <<"go">> \/ args[2] # <<"build">>
    THEN [status |-> "usage", binaryName |-> <<>>, buildTags |-> NilSlice,
          args |-> args]
    ELSE ScanBuildFlags(args, 1, [status |-> "ok", binaryName |-> <<>>,
                                  buildTags |-> NilSlice, args |-> args])

\* The interceptor's parseConfig: flag.Args() -> Config, or how it ends.
InterceptorParseConfig(args) ==
    IF Len(args) < 2 \/ args[1] # <<"go">> \/ args[2] # <<"build">>
    THEN [status |-> "usage", binaryName |-> <<>>, buildTags |-> NilSlice,
          args |-> args]
    ELSE LET config == ScanBuildFlags(args, 1,
                          [status |-> "ok", binaryName |-> <<>>,
                           buildTags |-> NilSlice, args |-> args])
         IN  IF config.binaryName = <<>>
             THEN [config EXCEPT !.status = "error"]
             ELSE config

\* The executor's parseConfig: the value of --tags and flag.Args().
ExecutorParseConfig(tags, args) ==
    IF Len(args) < 1
    THEN [status |-> "usage", binaryName |-> <<>>, buildTags |-> NilSlice,
          args |-> <<>>]
    ELSE [status |-> "ok", binaryName |-> args[1],
          buildTags |-> IF tags # <<>> THEN SplitTags(tags) ELSE NilSlice,
          args |-> Tail(args)]

(***************************************************************************)
(* Trace parser.                                                           *)
(***************************************************************************)
\* go env: GOTOOLDIR + "/link" and GOCACHE.
ToolLink == "/tool/link"
GOCACHE == "/cache/"

EmptyMap == [k \in {} |-> <<>>]

\* A map assignment that keeps the value of a key already present.
MapPutIfAbsent(m, k, v) ==
    [x \in DOMAIN m \cup {k} |-> IF x \in DOMAIN m THEN m[x] ELSE v]

\* Go's map assignment m[k] = v.
MapPut(m, k, v) == [x \in DOMAIN m \cup {k} |-> IF x = k THEN v ELSE m[x]]

\* Go's map index: the zero value for a missing key.
MapGet(m, k) == IF k \in DOMAIN m THEN m[k] ELSE <<>>

\* envVarRe.ReplaceAllStringFunc: every $NAME (NAME the longest run of word
\* characters) is replaced by envVarMap[NAME] when NAME is declared.
RECURSIVE ReplaceEnvVars(_, _, _)
ReplaceEnvVars(line, i, envVarMap) ==
    IF i > Len(line) THEN <<>>
    ELSE IF line[i] = "$" /\ WordRun(line, i + 1) > 0
    THEN LET n == WordRun(line, i + 1)
             name == SubSeq(line, i + 1, i + n)
         IN  (IF name \in DOMAIN envVarMap THEN envVarMap[name]
              ELSE <<"$">> \o name)
             \o ReplaceEnvVars(line, i + n + 1, envVarMap)
    ELSE <<line[i]>> \o ReplaceEnvVars(line, i + 1, envVarMap)

\* envVarDefRe: ^(\w+)=(\S*)$
EnvVarDefMatch(line) ==
    LET c == Cut(line, "=")
    IN  /\ c.ok
        /\ Len(c.before) >= 1
        /\ WordRun(c.before, 1) = Len(c.before)
        /\ NonSpaceRun(c.after, 1) = Len(c.after)

\* endFileRe: ^EOF$
EndFileMatch(line) == line = <<"EOF">>

StartFilePrefix == <<"cat", " ", ">">>
HereDoc == <<"<<", " ", "'EOF'">>

\* startFileRe: ^cat > *(\S+) *<< 'EOF' *(?:#.*)?$ ; the lengths the group
\* (\S+) can take so that the whole line matches.
StartFileLens(line) ==
    IF ~HasPrefix(line, StartFilePrefix) THEN {}
    ELSE LET p == 4 + SpaceRun(line, 4)
             n == NonSpaceRun(line, p)
         IN  {k \in 1..n :
                LET q == p + k + SpaceRun(line, p + k)
                    r == q + 3 + SpaceRun(line, q + 3)
                IN  /\ (k < n => q = p + k)
                    /\ q + 2 <= Len(line)
                    /\ SubSeq(line, q, q + 2) = HereDoc
                    /\ (r > Len(line) \/ line[r] = "#")}

StartFileMatch(line) == StartFileLens(line) # {}

\* The group (\S+) of startFileRe: the longest match.
StartFileName(line) ==
    LET p == 4 + SpaceRun(line, 4)
        k == CHOOSE k \in StartFileLens(line) :
                \A j \in StartFileLens(line) : j <= k
    IN  SubSeq(line, p, p + k - 1)

\* linkCommandRe: ^.*<GOTOOLDIR/link> (.*)$ ; the positions of the linker
\* path followed by a space.
LinkCommandPos(line) ==
    {i \in 1..Len(line) :
        line[i] = ToolLink /\ i + 1 <= Len(line) /\ line[i + 1] = Space}

LinkCommandMatch(line) == LinkCommandPos(line) # {}

\* The group (.*) of linkCommandRe: the leading .* is greedy, the group is
\* what follows the last occurrence.
LinkCommandArgs(line) ==
    LET i == CHOOSE i \in LinkCommandPos(line) :
                \A j \in LinkCommandPos(line) : j <= i
    IN  SubSeq(line, i + 2, Len(line))

\* One iteration of the scanner loop of parseGoBuildOutput.
ParseLine(st, text) ==
    LET line == ReplaceEnvVars(text, 1, st.envVarMap)
    IN  IF EnvVarDefMatch(line)
        THEN [st EXCEPT !.envVarMap =
                MapPut(@, Cut(line, "=").before, Cut(line, "=").after)]
        ELSE IF EndFileMatch(line)
        THEN [st EXCEPT !.currentFile = <<>>]
        ELSE IF st.currentFile # <<>>
        THEN [st EXCEPT !.filesContent =
                MapPut(@, st.currentFile,
                       Append(MapGet(@, st.currentFile), line))]
        ELSE IF StartFileMatch(line)
        THEN [st EXCEPT !.currentFile = StartFileName(line)]
        ELSE IF LinkCommandMatch(line)
        THEN [st EXCEPT !.linkCommands = Append(@, LinkCommandArgs(line))]
        ELSE st

RECURSIVE ParseLines(_, _)
ParseLines(st, out) ==
    IF out = <<>> THEN st ELSE ParseLines(ParseLine(st, Head(out)), Tail(out))

\* parseGoBuildOutput: the link commands and the staged files of a trace.
parseGoBuildOutput(out) ==
    LET st == ParseLines([currentFile |-> <<>>, envVarMap |-> EmptyMap,
                          filesContent |-> EmptyMap, linkCommands |-> <<>>],
                         out)
    IN  [linkCommands |-> st.linkCommands, filesContent |-> st.filesContent]

Packagefile == <<"packagefile">>

\* areAllFilesInCache
areAllFilesInCache(filesContent) ==
    \A f \in DOMAIN filesContent :
        \A i \in 1..Len(filesContent[f]) :
            HasPrefix(filesContent[f][i], Packagefile)
                => Contains(filesContent[f][i], <<GOCACHE>>)

(***************************************************************************)
(* Cache store: the tables of openOrCreateDB.  A table is the set of its   *)
(* rows.  Nothing is ever deleted, so an AUTOINCREMENT key is the number   *)
(* of rows plus one.                                                       *)
(***************************************************************************)
NULL == 0

EmptyTables ==
    [build_tags |-> {}, link_command |-> {}, link_command_args |-> {},
     package_file |-> {}, link_command_package_file |-> {},
     importcfg_additional_lines |-> {}]

Placeholder == <<"PLACEHOLDER">>
MainPackage == <<"MAIN", " ", "PACKAGE">>
FlagO == <<"-o">>
FlagImportcfg == <<"-importcfg">>

\* insertBuildTags: INSERT ... ON CONFLICT DO NOTHING, then SELECT.
insertBuildTags(tx, buildTags) ==
    LET tags == Jsonb(JSONMarshal(buildTags))
        found == {r \in tx.build_tags : r.tags = tags}
        id == Cardinality(tx.build_tags) + 1
    IN  IF found = {}
        THEN [tx |-> [tx EXCEPT !.build_tags =
                        @ \cup {[build_tags_id |-> id, tags |-> tags]}],
              id |-> id, err |-> FALSE]
        ELSE [tx |-> tx, id |-> (CHOOSE r \in found : TRUE).build_tags_id,
              err |-> FALSE]

\* The same loop with prevArg set to the token read, not to the argument
\* stored.
RECURSIVE InsertArgsPrevToken(_, _, _, _, _, _)
InsertArgsPrevToken(tx, linkCommandID, tokens, i, prevArg, importcfg) ==
    IF i >= Len(tokens)
    THEN [tx |-> tx, importcfg |-> importcfg, err |-> FALSE]
    ELSE LET tok == tokens[i + 1]
             arg == IF prevArg = FlagO \/ prevArg = FlagImportcfg
                    THEN Placeholder ELSE tok
             cfg == IF prevArg = FlagImportcfg THEN tok ELSE importcfg
         IN  InsertArgsPrevToken(
                    [tx EXCEPT !.link_command_args = @ \cup
                        {[link_command_id |-> linkCommandID, pos |-> i,
                          arg |-> arg]}],
                    linkCommandID, tokens, i + 1, tok, cfg)

\* The loop of insertLinkCommand over strings.Split(linkCommand, " "):
\* one INSERT INTO link_command_args per token, positions from 0.
RECURSIVE InsertArgs(_, _, _, _, _, _)
InsertArgs(tx, linkCommandID, tokens, i, prevArg, importcfg) ==
    IF i >= Len(tokens)
    THEN [tx |-> tx, importcfg |-> importcfg, err |-> FALSE]
    ELSE LET tok == tokens[i + 1]
             arg == IF prevArg = FlagO \/ prevArg = FlagImportcfg
                    THEN Placeholder ELSE tok
             cfg == IF prevArg = FlagImportcfg THEN tok ELSE importcfg
         IN  IF \E r \in tx.link_command_args :
                    r.link_command_id = linkCommandID /\ r.pos = i
             THEN [tx |-> tx, importcfg |-> cfg, err |-> TRUE]
             ELSE InsertArgs(
                    [tx EXCEPT !.link_command_args = @ \cup
                        {[link_command_id |-> linkCommandID, pos |-> i,
                          arg |-> arg]}],
                    linkCommandID, tokens, i + 1, arg, cfg)

\* insertLinkCommand: a plain INSERT INTO link_command (it fails on the
\* UNIQUE (binary_name, build_tags_id) constraint), then the arguments.
insertLinkCommand(tx, binaryName, buildTagsID, linkCommand) ==
    IF \E r \in tx.link_command :
            r.binary_name = binaryName /\ r.build_tags_id = buildTagsID
    THEN [tx |-> tx, id |-> 0, importcfg |-> <<>>, err |-> TRUE]
    ELSE LET id == Cardinality(tx.link_command) + 1
             tx1 == [tx EXCEPT !.link_command = @ \cup
                        {[link_command_id |-> id, binary_name |-> binaryName,
                          build_tags_id |-> buildTagsID,
                          main_package_id |-> NULL]}]
             Result(r) == [tx |-> r.tx, id |-> id, importcfg |-> r.importcfg,
                           err |-> r.err]
         IN  Result(InsertArgs(tx1, id, Split(linkCommand, Space), 0,
                               <<>>, <<>>))

\* insertPackageFile
insertPackageFile(tx, linkCommandID, line) ==
    LET newID == Cardinality(tx.package_file) + 1
        \* INSERT INTO link_command_package_file
        Link(tx1, packageFileID) ==
            IF [link_command_id |-> linkCommandID,
                package_file_id |-> packageFileID]
                    \in tx1.link_command_package_file
            THEN [tx |-> tx1, err |-> TRUE]
            ELSE [tx |-> [tx1 EXCEPT !.link_command_package_file = @ \cup
                            {[link_command_id |-> linkCommandID,
                              package_file_id |-> packageFileID]}],
                  err |-> FALSE]
        \* INSERT INTO package_file ... ON CONFLICT DO NOTHING, then the
        \* SELECT by (package, file) when no row was inserted.
        Insert(packageName, file, conflict, found) ==
            IF ~conflict
            THEN Link([tx EXCEPT !.package_file = @ \cup
                            {[package_file_id |-> newID,
                              package |-> packageName, file |-> file]}],
                      newID)
            ELSE IF found = {} THEN [tx |-> tx, err |-> TRUE]
            ELSE Link(tx, (CHOOSE r \in found : TRUE).package_file_id)
        Pair(c2) ==
            IF ~c2.ok THEN [tx |-> tx, err |-> TRUE]
            ELSE Insert(c2.before, c2.after,
                        \E r \in tx.package_file : r.file = c2.after,
                        {r \in tx.package_file :
                            r.package = c2.before /\ r.file = c2.after})
        Directive(c1) ==
            IF ~c1.ok \/ c1.before # Packagefile
            THEN [tx |-> tx, err |-> TRUE]
            ELSE Pair(Cut(c1.after, "="))
    IN  Directive(Cut(line, Space))

\* insertAdditionalLines
insertAdditionalLines(tx, linkCommandID, line) ==
    LET row == [link_command_id |-> linkCommandID, line |-> line]
    IN  IF row \in tx.importcfg_additional_lines
        THEN [tx |-> tx, err |-> TRUE]
        ELSE [tx |-> [tx EXCEPT !.importcfg_additional_lines = @ \cup {row}],
              err |-> FALSE]

\* The argument of lowest position: ORDER BY pos without DESC.
FirstArg(tx, linkCommandID) ==
    {r.arg : r \in {r \in tx.link_command_args :
        /\ r.link_command_id = linkCommandID
        /\ \A q \in tx.link_command_args :
              q.link_command_id = linkCommandID => q.pos >= r.pos}}

\* The argument of highest position of a link command (ORDER BY pos DESC
\* LIMIT 1), as a set: empty when it has no argument.
LastArg(tx, linkCommandID) ==
    {r.arg : r \in {r \in tx.link_command_args :
        /\ r.link_command_id = linkCommandID
        /\ \A q \in tx.link_command_args :
              q.link_command_id = linkCommandID => q.pos <= r.pos}}

\* updateLinkCommand: main_package_id is the package file whose file is the
\* last argument (NULL when none); every argument equal to that file
\* becomes "MAIN PACKAGE".
updateLinkCommand(tx, linkCommandID) ==
    LET main == {p \in tx.package_file : p.file \in LastArg(tx, linkCommandID)}
        mainID == IF main = {} THEN NULL
                  ELSE (CHOOSE p \in main : TRUE).package_file_id
        mainFile == {p.file : p \in main}
    IN  [tx EXCEPT
            !.link_command =
                {IF r.link_command_id = linkCommandID
                 THEN [r EXCEPT !.main_package_id = mainID] ELSE r : r \in @},
            !.link_command_args =
                {IF r.link_command_id = linkCommandID /\ r.arg \in mainFile
                 THEN [r EXCEPT !.arg = MainPackage] ELSE r : r \in @}]

\* A loop that goes on with the next line when insertPackageFile fails.
RECURSIVE InsertLinesSkipping(_, _, _)
InsertLinesSkipping(tx, linkCommandID, lines) ==
    IF lines = <<>> THEN [tx |-> tx, err |-> FALSE, at |-> "none"]
    ELSE LET Rest(r, at) ==
                IF r.err /\ at = "insertAdditionalLines"
                THEN [tx |-> r.tx, err |-> TRUE, at |-> at]
                ELSE InsertLinesSkipping(r.tx, linkCommandID, Tail(lines))
         IN  IF HasPrefix(Head(lines), Packagefile)
             THEN Rest(insertPackageFile(tx, linkCommandID, Head(lines)),
                       "insertPackageFile")
             ELSE Rest(insertAdditionalLines(tx, linkCommandID, Head(lines)),
                       "insertAdditionalLines")

\* The loop of writeToDB over filesContent[importcfg].  at names the call
\* whose error ends the loop.
RECURSIVE InsertLines(_, _, _)
InsertLines(tx, linkCommandID, lines) ==
    IF lines = <<>> THEN [tx |-> tx, err |-> FALSE, at |-> "none"]
    ELSE LET Rest(r, at) ==
                IF r.err THEN [tx |-> r.tx, err |-> TRUE, at |-> at]
                ELSE InsertLines(r.tx, linkCommandID, Tail(lines))
         IN  IF HasPrefix(Head(lines), Packagefile)
             THEN Rest(insertPackageFile(tx, linkCommandID, Head(lines)),
                       "insertPackageFile")
             ELSE Rest(insertAdditionalLines(tx, linkCommandID, Head(lines)),
                       "insertAdditionalLines")

\* The loop of writeToDB over linkCommands.
RECURSIVE InsertLinkCommands(_, _, _, _, _)
InsertLinkCommands(tx, binaryName, buildTagsID, linkCommands, filesContent) ==
    IF linkCommands = <<>> THEN [tx |-> tx, err |-> FALSE, at |-> "none"]
    ELSE LET Update(id, r2) ==
                IF r2.err THEN r2
                ELSE InsertLinkCommands(updateLinkCommand(r2.tx, id),
                        binaryName, buildTagsID, Tail(linkCommands),
                        filesContent)
             Lines(r1) ==
                IF r1.err
                THEN [tx |-> r1.tx, err |-> TRUE, at |-> "insertLinkCommand"]
                ELSE Update(r1.id, InsertLines(r1.tx, r1.id,
                                    MapGet(filesContent, r1.importcfg)))
         IN  Lines(insertLinkCommand(tx, binaryName, buildTagsID,
                                     Head(linkCommands)))

\* The deferred tx.Commit() of writeToDB: it runs on every return path,
\* with or without an error.
TxEnd(tables, tx, err) == tx

\* writeToDB: the tables after the call, whether it returned an error and
\* from which call.
writeToDB(tables, config, linkCommands, filesContent) ==
    LET Return(r1) ==
            [tables |-> TxEnd(tables, r1.tx, r1.err), err |-> r1.err,
             at |-> r1.at]
        Commands(r0) ==
            Return(InsertLinkCommands(r0.tx, config.binaryName, r0.id,
                                      linkCommands, filesContent))
    IN  Commands(insertBuildTags(tables, config.buildTags))

(***************************************************************************)
(* Cache store: the queries of the executor.                               *)
(***************************************************************************)
\* A lookup by program name alone, whatever the tags.
LinkCommandRowsAnyTags(tables, binaryName, buildTags) ==
    {[link_command_id |-> lc.link_command_id,
      file |-> {p.file : p \in {p \in tables.package_file :
                    p.package_file_id = lc.main_package_id}}] :
        lc \in {lc \in tables.link_command : lc.binary_name = binaryName}}

\* The rows of the SELECT of getLinkCommandID: link_command NATURAL JOIN
\* build_tags LEFT JOIN package_file, WHERE binary_name = ? AND
\* tags = jsonb(?).  file is {} for a NULL, else {the file}.
LinkCommandRows(tables, binaryName, buildTags) ==
    {[link_command_id |-> lc.link_command_id,
      file |-> {p.file : p \in {p \in tables.package_file :
                    p.package_file_id = lc.main_package_id}}] :
        lc \in {lc \in tables.link_command :
            /\ lc.binary_name = binaryName
            /\ \E bt \in tables.build_tags :
                /\ bt.build_tags_id = lc.build_tags_id
                /\ bt.tags = Jsonb(JSONMarshal(buildTags))}}

\* getLinkCommandID: "norows" is sql.ErrNoRows (the process then exits 1),
\* "error" is the Scan of a NULL file into a string.
getLinkCommandID(tables, binaryName, buildTags) ==
    LET rows == LinkCommandRows(tables, binaryName, buildTags)
    IN  IF rows = {}
        THEN [status |-> "norows", linkCommandID |-> 0, mainPackage |-> <<>>]
        ELSE LET row == CHOOSE r \in rows : TRUE
             IN  IF row.file = {}
                 THEN [status |-> "error", linkCommandID |-> 0,
                       mainPackage |-> <<>>]
                 ELSE [status |-> "ok", linkCommandID |-> row.link_command_id,
                       mainPackage |-> CHOOSE f \in row.file : TRUE]

\* A manifest query without its WHERE link_command_id = ? conditions.
getImportcfgAnyID(tables, linkCommandID) ==
    {<<"packagefile", " ">> \o p.package \o <<"=">> \o p.file :
        p \in {p \in tables.package_file :
            \E l \in tables.link_command_package_file :
                l.package_file_id = p.package_file_id}}
    \cup
    {r.line : r \in tables.importcfg_additional_lines}

\* The SELECT ... UNION SELECT of getImportcfg: the lines written to the
\* temporary importcfg file (UNION returns a set of rows).
getImportcfg(tables, linkCommandID) ==
    {<<"packagefile", " ">> \o p.package \o <<"=">> \o p.file :
        p \in {p \in tables.package_file :
            [link_command_id |-> linkCommandID,
             package_file_id |-> p.package_file_id]
                \in tables.link_command_package_file}}
    \cup
    {r.line : r \in {r \in tables.importcfg_additional_lines :
                        r.link_command_id = linkCommandID}}

\* The rows.Next() loop of getLinkerCommandArgs over the rows ORDER BY pos.
RECURSIVE ResolveArgs(_, _, _, _, _)
ResolveArgs(rows, prevArg, mainPackage, binaryFileName, importcfgFileName) ==
    IF rows = {} THEN <<>>
    ELSE LET row == CHOOSE r \in rows : \A q \in rows : r.pos <= q.pos
             a1 == IF row.arg = Placeholder
                   THEN IF prevArg = FlagO THEN binaryFileName
                        ELSE IF prevArg = FlagImportcfg THEN importcfgFileName
                        ELSE row.arg
                   ELSE row.arg
             arg == IF a1 = MainPackage THEN mainPackage ELSE a1
         IN  <<arg>> \o ResolveArgs(rows \ {row}, arg, mainPackage,
                                    binaryFileName, importcfgFileName)

\* An argument query without its WHERE link_command_id = ? condition.
getLinkerCommandArgsAnyID(tables, linkCommandID, mainPackage, binaryFileName, importcfgFileName) ==
    ResolveArgs(tables.link_command_args, <<>>, mainPackage, binaryFileName,
                importcfgFileName)

\* getLinkerCommandArgs
getLinkerCommandArgs(tables, linkCommandID, mainPackage, binaryFileName, importcfgFileName) ==
    ResolveArgs({r \in tables.link_command_args :
                    r.link_command_id = linkCommandID},
                <<>>, mainPackage, binaryFileName, importcfgFileName)

\* The cache key of a run: the program name and the tags as the store
\* compares them (json.Marshal, then jsonb).
Fingerprint(config) ==
    [binaryName |-> config.binaryName,
     tags |-> Jsonb(JSONMarshal(config.buildTags))]

(***************************************************************************)
(* Inputs: command lines, build traces, results of the system calls.       *)
(***************************************************************************)
TagNames == {"A", "B"}

BoundedSeq(S, n) == UNION {[1..k -> S] : k \in 0..n}

\* Tag lists of at most MaxTags tags.
TagLists == BoundedSeq({<<t>> : t \in TagNames}, MaxTags)

\* The value of a tags flag for a tag list.
RECURSIVE JoinTags(_)
JoinTags(T) ==
    IF T = <<>> THEN <<>>
    ELSE Head(T) \o (IF Len(T) > 1 THEN <<",">> ELSE <<>>) \o JoinTags(Tail(T))

Program == <<"foo">>

\* interceptor -- go build [--tags T] -o foo .
BuildArgs(T) ==
    << <<"go">>, <<"build">> >>
    \o (IF T = <<>> THEN <<>> ELSE << <<"--tags">>, JoinTags(T) >>)
    \o << <<"-o">>, Program, <<".">> >>

\* Command lines of the interceptor: those of the test script, one with the
\* tags in another order, one without -o and one that is not a build.
InterceptorArgs ==
    {BuildArgs(<<>>), BuildArgs(<< <<"A">> >>),
     BuildArgs(<< <<"B">>, <<"A">> >>),
     << <<"go">>, <<"build">>, <<".">> >>,
     << <<"go">>, <<"test">> >>}

\* Command lines of the executor: the value of --tags and flag.Args().
ExecutorArgs ==
    {[tags |-> JoinTags(T), args |-> <<Program, <<"arg">> >>] :
        T \in {<<>>, << <<"A">> >>, << <<"A">>, <<"B">> >>, << <<"B">> >>}}
    \cup {[tags |-> <<>>, args |-> <<>>]}

CachedMain == <<"/cache/", "main.a">>
CachedFmt == <<"/cache/", "fmt.a">>

PackagefileLine(name, file) == <<"packagefile", " ", name, "=">> \o file

ModinfoLine == <<"modinfo", " ", "x">>

\* The lines of a go build -x trace: WORK, the staged importcfg.link with
\* the given lines, and one link command per element of links.
RECURSIVE LinkLines(_)
LinkLines(links) ==
    IF links = <<>> THEN <<>>
    ELSE << <<ToolLink, " ", "-o", " ", "$", "WORK", "/out", " ",
              "-importcfg", " ", "$", "WORK", "/cfg", " ", "-s", " ">>
            \o Head(links) >> \o LinkLines(Tail(links))

Trace(manifest, links) ==
    << <<"WORK", "=", "/tmp/b1">>,
       <<"cat", " ", ">", "$", "WORK", "/cfg", " ", "<<", " ", "'EOF'",
         " ", "#", " ", "internal">> >>
    \o manifest
    \o << <<"EOF">>, <<"cd", " ", ".">> >>
    \o LinkLines(links)

\* A warm build: every package file in the cache, the main package last.
TraceGood ==
    Trace(<<PackagefileLine("main", CachedMain),
            PackagefileLine("fmt", CachedFmt), ModinfoLine>>,
          <<CachedMain>>)

\* A cold build: the main package is in the build's scratch directory.
TraceScratch ==
    Trace(<<PackagefileLine("main", <<"$", "WORK", "/main.a">>),
            PackagefileLine("fmt", CachedFmt)>>,
          << <<"$", "WORK", "/main.a">> >>)

\* The last token of the link command is no package file.
TraceNoMain ==
    Trace(<<PackagefileLine("fmt", CachedFmt)>>, << <<"-w">> >>)

\* A packagefile line without "=".
TraceBadLine ==
    Trace(<<PackagefileLine("fmt", CachedFmt),
            <<"packagefile", " ", "/cache/", "bad">> >>,
          <<CachedMain>>)

\* The main package file under another package name.
TraceAlt ==
    Trace(<<PackagefileLine("alt", CachedMain)>>, <<CachedMain>>)

\* A warm build with one more linker flag.
TraceStripped ==
    Trace(<<PackagefileLine("main", CachedMain)>>,
          << <<"-w", " ">> \o CachedMain >>)

\* The same additional line twice.
TraceDup ==
    Trace(<<PackagefileLine("main", CachedMain), ModinfoLine, ModinfoLine>>,
          <<CachedMain>>)

\* No link command, and two of them.
TraceNoLink == Trace(<<PackagefileLine("main", CachedMain)>>, <<>>)

TraceTwoLinks ==
    Trace(<<PackagefileLine("main", CachedMain)>>, <<CachedMain, CachedMain>>)

Traces ==
    {TraceGood, TraceScratch, TraceNoMain, TraceBadLine, TraceAlt,
     TraceStripped, TraceDup, TraceNoLink, TraceTwoLinks}

\* os.CreateTemp: the names of the executor's temporary files.
BinaryFileName == <<"/tmp/foo1">>
ImportcfgFileName == <<"/tmp/importcfg.link1">>

\* Exit statuses: log.Fatalf, the usage message, the cache miss, success.
FatalExit == 1
UsageExit == 2
NoRowsExit == 1
SuccessExit == 0

\* Exit codes of a child process that failed.
ChildExitCodes == {1, 2}

\* What a failing linker wrote to its standard error.
ChildStderr == {<<>>, <<"ld", ":", " ", "undefined", "\n">>}

\* log.Print: the text it writes to the standard error of the process, a
\* header and the message, with a newline when the message has none.
LogPrint(message) ==
    <<"date", " ">> \o message
    \o (IF message # <<>> /\ message[Len(message)] = "\n" THEN <<>>
        ELSE <<"\n">>)

\* Attempts of the cache-warming loop.
Attempts == 3

(***************************************************************************)
(* State.                                                                  *)
(*   dbExists, tables  the cache file and the rows of its tables           *)
(*   cap               the interceptor process: the variables of its main  *)
(*                     and, kept after it ended, how it ended (traces: the *)
(*                     build outputs of its attempts; tablesBefore: the    *)
(*                     tables when writeToDB was called; wrote: its        *)
(*                     transaction committed; failedAt: the failing call)  *)
(*   rep               the executor process, likewise (linkerExit and      *)
(*                     linkerStderr: how the linker ended; logged: what    *)
(*                     the executor then printed)                          *)
(*   captured          the fingerprints a capture transaction committed    *)
(*   observed          history: for each link command a committed capture  *)
(*                     inserted, its fingerprint, its row id, whether the  *)
(*                     capture failed later on, the tokens of the line and *)
(*                     the lines of its staged manifest                    *)
(*   captures, replays the runs started so far                             *)
(*   fp                two tag lists and their fingerprints (SpecFP)       *)
(*   scan              a build output and what the parser made of it       *)
(*                     (SpecScan)                                          *)
(***************************************************************************)
VARIABLES dbExists, tables, cap, rep, captured, observed, captures,
          replays, fp, scan

vars ==
    <<dbExists, tables, cap, rep, captured, observed, captures, replays, fp,
      scan>>

NoConfig ==
    [status |-> "none", binaryName |-> <<>>, buildTags |-> NilSlice,
     args |-> <<>>]

CapInit ==
    [pc |-> "idle", config |-> NoConfig, remainingAttempts |-> Attempts,
     allFilesInCache |-> FALSE, linkCommands |-> <<>>,
     filesContent |-> EmptyMap, goEnvCached |-> FALSE, traces |-> <<>>,
     tablesBefore |-> EmptyTables, wrote |-> FALSE, failedAt |-> "none",
     outcome |-> "none", exit |-> SuccessExit, buildExit |-> SuccessExit,
     removeErr |-> "none"]

RepInit ==
    [pc |-> "idle", config |-> NoConfig, snap |-> EmptyTables,
     linkCommandID |-> 0, mainPackage |-> <<>>, importcfg |-> {},
     importcfgFile |-> FALSE, binaryFile |-> FALSE, args |-> <<>>,
     argsBuilt |-> FALSE, linkerRan |-> FALSE, linkerExit |-> SuccessExit,
     linkerStderr |-> <<>>, logged |-> <<>>, handedOff |-> FALSE,
     outcome |-> "none", exit |-> SuccessExit,
     before |-> [dbExists |-> FALSE, tables |-> EmptyTables],
     lookup |-> "none", importcfgRead |-> FALSE, prev |-> <<>>,
     writers |-> {}, exec |-> [argv |-> <<>>, env |-> <<>>]]

FpInit ==
    [t1 |-> <<>>, t2 |-> <<>>, parsed |-> {}, c1 |-> NoConfig,
     c2 |-> NoConfig, r1 |-> NoConfig, r2 |-> NoConfig]

ScanInit == [out |-> <<>>, parsed |-> parseGoBuildOutput(<<>>), done |-> FALSE]

Init ==
    /\ dbExists = FALSE
    /\ tables = EmptyTables
    /\ cap = CapInit
    /\ rep = RepInit
    /\ captured = {}
    /\ observed = {}
    /\ captures = 0
    /\ replays = 0
    /\ fp = FpInit
    /\ scan = ScanInit

CapEnd(c, outcome, exit) ==
    [c EXCEPT !.pc = "done", !.outcome = outcome, !.exit = exit]

RepEnd(r, outcome, exit) ==
    [r EXCEPT !.pc = "done", !.outcome = outcome, !.exit = exit]

(***************************************************************************)
(* The interceptor (capture pipeline).  A run starts when no other run is  *)
(* in progress: the caller serializes the runs on one cache file.          *)
(***************************************************************************)
\* main: parseConfig, then the first test of the loop condition.
CaptureStart ==
    /\ cap.pc \in {"idle", "done"}
    /\ rep.pc \in {"idle", "done"}
    /\ captures < MaxCaptures
    /\ captures' = captures + 1
    /\ \E args \in InterceptorArgs :
        LET config == InterceptorParseConfig(args)
        IN  cap' =
                IF config.status = "usage"
                THEN CapEnd([CapInit EXCEPT !.config = config],
                            "usage", UsageExit)
                ELSE IF config.status = "error"
                THEN CapEnd([CapInit EXCEPT !.config = config],
                            "config", FatalExit)
                ELSE [CapInit EXCEPT !.config = config, !.pc = "remove"]
    /\ rep' = RepInit
    /\ UNCHANGED <<dbExists, tables, captured, observed, replays, fp, scan>>

\* A test of the error of os.Remove without os.IsNotExist.
RemoveEndStrict(c, res) ==
    IF res # "removed"
    THEN CapEnd([c EXCEPT !.removeErr = res], "remove", FatalExit)
    ELSE [c EXCEPT !.removeErr = res, !.pc = "build"]

\* if err != nil && !os.IsNotExist(err) { log.Fatalf(...) }
RemoveEnd(c, res) ==
    IF res = "error"
    THEN CapEnd([c EXCEPT !.removeErr = res], "remove", FatalExit)
    ELSE [c EXCEPT !.removeErr = res, !.pc = "build"]

\* The loop body, first half: os.Remove(config.binaryName).  (removeErr:
\* what the call returned, until the build that follows it starts.)
CaptureRemove ==
    /\ cap.pc = "remove"
    /\ \E res \in {"removed", "notexist", "error"} :
        cap' = RemoveEnd(cap, res)
    /\ UNCHANGED <<dbExists, tables, rep, captured, observed, captures, replays, fp, scan>>

\* A loop that appends each attempt's link commands to those of the
\* attempts before it.
AttemptResultAppending(prev, out) ==
    [linkCommands |-> prev.linkCommands \o parseGoBuildOutput(out).linkCommands,
     filesContent |-> parseGoBuildOutput(out).filesContent]

\* What the loop assigns to linkCommands and filesContent from a trace.
AttemptResult(prev, out) == parseGoBuildOutput(out)

\* The for statement's condition, tested after remainingAttempts--.
LoopContinues(allFilesInCache, remainingAttempts) ==
    ~allFilesInCache /\ remainingAttempts > 0

\* An error of the build that is dropped: the loop is left and writeToDB
\* gets what the attempts before have parsed.
BuildFailedIgnored(c, code) == [c EXCEPT !.buildExit = code, !.pc = "write"]

\* go build -x exited with a status other than 0 (buildExit): CombinedOutput
\* returns an error and main calls log.Fatalf.
BuildFailed(c, code) ==
    CapEnd([c EXCEPT !.buildExit = code], "build", FatalExit)

\* The loop body, second half: go build -x, parseGoBuildOutput (with the
\* first go env of the process), areAllFilesInCache, remainingAttempts--.
CaptureBuild ==
    /\ cap.pc = "build"
    /\ \E c \in {[cap EXCEPT !.removeErr = "none"]} :
       \/ cap' = CapEnd(c, "build", FatalExit)
       \/ \E code \in ChildExitCodes : cap' = BuildFailed(c, code)
       \/ /\ ~c.goEnvCached
          /\ \/ \E code \in ChildExitCodes :
                    cap' = CapEnd(c, "goenv-exit", code)
             \/ cap' = CapEnd(c, "goenv", FatalExit)
       \/ \E out \in Traces :
            LET parsed == AttemptResult(
                            [linkCommands |-> c.linkCommands,
                             filesContent |-> c.filesContent], out)
                ok == areAllFilesInCache(parsed.filesContent)
            IN  cap' = [c EXCEPT
                    !.goEnvCached = TRUE,
                    !.traces = Append(@, out),
                    !.linkCommands = parsed.linkCommands,
                    !.filesContent = parsed.filesContent,
                    !.allFilesInCache = ok,
                    !.remainingAttempts = @ - 1,
                    !.pc = IF LoopContinues(ok, c.remainingAttempts - 1)
                           THEN "remove" ELSE "write"]
    /\ UNCHANGED <<dbExists, tables, rep, captured, observed, captures, replays, fp, scan>>

\* The lines of the manifest a link command names: the content of the
\* staged file named by the token after -importcfg.
Observed(linkCommand, filesContent) ==
    UNION {{MapGet(filesContent, key)[i] :
                i \in 1..Len(MapGet(filesContent, key))} :
            key \in {Split(linkCommand, Space)[i + 1] :
                i \in {i \in 1..(Len(Split(linkCommand, Space)) - 1) :
                    Split(linkCommand, Space)[i] = FlagImportcfg}}}

\* The executor's transaction has read the cache and has not ended: from
\* its first query to the end of the process, sqlite keeps its shared lock
\* on the cache file.
ReaderHoldsLock ==
    rep.pc \in {"importcfg", "mktemp", "args", "link", "remove", "exec"}

\* writeToDB and the end of main.  storage: "open" is a failure of
\* openOrCreateDB or BeginTx, "commit" a failure of the deferred Commit
\* (sqlite then rolls the transaction back); the Commit cannot succeed
\* while a reader holds its lock.  The rows written become visible to the
\* other connections at the Commit, all at once.  (rep.writers: the keys
\* committed since an executor that has not read the cache yet started.)
CaptureWrite ==
    /\ cap.pc = "write"
    /\ \E storage \in {"ok", "open", "commit"},
          r \in {writeToDB(tables, cap.config, cap.linkCommands,
                           cap.filesContent)} :
        /\ storage = "ok" => ~ReaderHoldsLock
        /\ rep' = IF storage = "ok" /\ rep.pc \in {"begin", "lookup"}
                  THEN [rep EXCEPT !.writers = @ \cup
                                        {Fingerprint(cap.config)}]
                  ELSE rep
        /\ IF storage = "open"
            THEN /\ cap' = CapEnd([cap EXCEPT !.tablesBefore = tables],
                                  "write", FatalExit)
                 /\ UNCHANGED <<dbExists, tables, captured, observed>>
            ELSE IF storage = "commit"
            THEN /\ cap' = CapEnd([cap EXCEPT !.tablesBefore = tables],
                                  "write", FatalExit)
                 /\ dbExists' = TRUE
                 /\ UNCHANGED <<tables, captured, observed>>
            ELSE /\ cap' = CapEnd([cap EXCEPT !.tablesBefore = tables,
                                              !.wrote = TRUE,
                                              !.failedAt = r.at],
                                  IF r.err THEN "write" ELSE "ok",
                                  IF r.err THEN FatalExit ELSE SuccessExit)
                 /\ dbExists' = TRUE
                 /\ tables' = r.tables
                 /\ captured' = captured \cup {Fingerprint(cap.config)}
                 /\ observed' = observed \cup
                        {[fp |-> Fingerprint(cap.config),
                          id |-> lc.link_command_id,
                          err |-> r.err,
                          tokens |-> Split(cap.linkCommands[1], Space),
                          manifest |-> Observed(cap.linkCommands[1],
                                                cap.filesContent)] :
                            lc \in r.tables.link_command
                                    \ tables.link_command}
    /\ UNCHANGED <<captures, replays, fp, scan>>

(***************************************************************************)
(* The executor (replay pipeline).                                         *)
(***************************************************************************)
\* What an executor run that ended has returned: its key, the result of
\* its lookup, the lines of its importcfg, and the cache before it started.
Summary(r) ==
    [config |-> r.config, lookup |-> r.lookup,
     linkCommandID |-> r.linkCommandID, mainPackage |-> r.mainPackage,
     importcfgRead |-> r.importcfgRead, importcfg |-> r.importcfg,
     before |-> r.before]

\* main: parseConfig, in the n-th run at most; serialized: the caller runs
\* the executor only when no interceptor runs.  (before: the cache when the
\* run starts; prev: the runs that ended since the last capture.)
ReplayStartUpTo(n, serialized) ==
    /\ rep.pc \in {"idle", "done"}
    /\ serialized => cap.pc \in {"idle", "done"}
    /\ replays < n
    /\ replays' = replays + 1
    /\ \E in \in ExecutorArgs :
        LET config == ExecutorParseConfig(in.tags, in.args)
            start == [RepInit EXCEPT
                        !.config = config,
                        !.before = [dbExists |-> dbExists, tables |-> tables],
                        !.prev = IF rep.pc = "done"
                                 THEN Append(rep.prev, Summary(rep))
                                 ELSE rep.prev]
        IN  rep' = IF config.status = "usage"
                   THEN RepEnd(start, "usage", UsageExit)
                   ELSE [start EXCEPT !.pc = "begin"]
    /\ UNCHANGED <<dbExists, tables, cap, captured, observed, captures, fp,
                   scan>>

ReplayStart == ReplayStartUpTo(MaxReplays, TRUE)

\* A connection opened with mode=rwc, which creates a missing cache file.
OpenReadWriteCreate(exists) == TRUE

\* sql.Open("sqlite3", "file:...?mode=ro"): the cache file exists after it
\* if and only if it existed before.
OpenReadOnly(exists) == exists

\* sql.Open(mode=ro) and BeginTx: they fail when there is no cache file.
ReplayBegin ==
    /\ rep.pc = "begin"
    /\ dbExists' = OpenReadOnly(dbExists)
    /\ rep' = IF dbExists' THEN [rep EXCEPT !.pc = "lookup"]
              ELSE RepEnd(rep, "open", FatalExit)
    /\ UNCHANGED <<tables, cap, captured, observed, captures, replays, fp, scan>>

\* getLinkCommandID, the first query of the read transaction.
ReplayLookup ==
    /\ rep.pc = "lookup"
    /\ LET r == getLinkCommandID(tables, rep.config.binaryName,
                                 rep.config.buildTags)
       IN  rep' =
            IF r.status = "norows"
            THEN RepEnd([rep EXCEPT !.snap = tables, !.lookup = r.status],
                        "miss", NoRowsExit)
            ELSE IF r.status = "error"
            THEN RepEnd([rep EXCEPT !.snap = tables, !.lookup = r.status],
                        "query", FatalExit)
            ELSE [rep EXCEPT !.snap = tables, !.pc = "importcfg",
                             !.lookup = r.status,
                             !.linkCommandID = r.linkCommandID,
                             !.mainPackage = r.mainPackage]
    /\ UNCHANGED <<dbExists, tables, cap, captured, observed, captures, replays, fp, scan>>

\* getImportcfg: the temporary importcfg file and its lines.
ReplayImportcfg ==
    /\ rep.pc = "importcfg"
    /\ \/ rep' = RepEnd(rep, "mktemp", FatalExit)
       \/ rep' = [rep EXCEPT !.pc = "mktemp", !.importcfgFile = TRUE,
                    !.importcfgRead = TRUE,
                    !.importcfg = getImportcfg(rep.snap, rep.linkCommandID)]
    /\ UNCHANGED <<dbExists, tables, cap, captured, observed, captures, replays, fp, scan>>

\* os.CreateTemp("", config.binaryName)
ReplayCreateTemp ==
    /\ rep.pc = "mktemp"
    /\ \/ rep' = RepEnd(rep, "mktemp", FatalExit)
       \/ rep' = [rep EXCEPT !.pc = "args", !.binaryFile = TRUE]
    /\ UNCHANGED <<dbExists, tables, cap, captured, observed, captures, replays, fp, scan>>

\* getLinkerCommandArgs
ReplayArgs ==
    /\ rep.pc = "args"
    /\ rep' = [rep EXCEPT !.pc = "link", !.argsBuilt = TRUE,
                !.args = getLinkerCommandArgs(rep.snap, rep.linkCommandID,
                            rep.mainPackage, BinaryFileName,
                            ImportcfgFileName)]
    /\ UNCHANGED <<dbExists, tables, cap, captured, observed, captures, replays, fp, scan>>

\* A linker failure handled like the other errors, through log.Fatalf.
LinkerExitFatal(r, code, stderr) ==
    RepEnd([r EXCEPT !.linkerRan = TRUE, !.linkerExit = code,
                     !.linkerStderr = stderr,
                     !.logged = LogPrint(<<"Error">>)],
           "linker-exit", FatalExit)

\* The *exec.ExitError branch: log.Print(string(err.Stderr)), then
\* os.Exit(err.ExitCode()).
LinkerExit(r, code, stderr) ==
    RepEnd([r EXCEPT !.linkerRan = TRUE, !.linkerExit = code,
                     !.linkerStderr = stderr, !.logged = LogPrint(stderr)],
           "linker-exit", code)

\* exec.Command(config.linker, args...).Output()
ReplayLink ==
    /\ rep.pc = "link"
    /\ \/ rep' = RepEnd(rep, "linker-launch", FatalExit)
       \/ \E code \in ChildExitCodes, stderr \in ChildStderr :
            rep' = LinkerExit(rep, code, stderr)
       \/ rep' = [rep EXCEPT !.pc = "remove", !.linkerRan = TRUE]
    /\ UNCHANGED <<dbExists, tables, cap, captured, observed, captures, replays, fp, scan>>

\* os.Remove(importcfgFileName)
ReplayRemove ==
    /\ rep.pc = "remove"
    /\ \/ rep' = RepEnd(rep, "remove", FatalExit)
       \/ rep' = [rep EXCEPT !.pc = "exec", !.importcfgFile = FALSE]
    /\ UNCHANGED <<dbExists, tables, cap, captured, observed, captures, replays, fp, scan>>

\* os.Environ(): the environment the executor was started with.
Environ == << <<"PATH", "=", "/bin">> >>

\* A handoff that passes the program name alone.
ExecImageNoArgs(r) == [argv |-> <<r.config.binaryName>>, env |-> Environ]

\* The argv and envv of syscall.Exec: append([]string{config.binaryName},
\* config.args...) and os.Environ().
ExecImage(r) ==
    [argv |-> <<r.config.binaryName>> \o r.config.args, env |-> Environ]

\* syscall.Exec(binaryFile.Name(), ...)
ReplayExec ==
    /\ rep.pc = "exec"
    /\ \/ rep' = RepEnd(rep, "exec-failed", FatalExit)
       \/ rep' = RepEnd([rep EXCEPT !.handedOff = TRUE,
                                    !.exec = ExecImage(rep)],
                        "exec", SuccessExit)
    /\ UNCHANGED <<dbExists, tables, cap, captured, observed, captures, replays, fp, scan>>

Next ==
    \/ CaptureStart
    \/ CaptureRemove
    \/ CaptureBuild
    \/ CaptureWrite
    \/ ReplayStart
    \/ ReplayBegin
    \/ ReplayLookup
    \/ ReplayImportcfg
    \/ ReplayCreateTemp
    \/ ReplayArgs
    \/ ReplayLink
    \/ ReplayRemove
    \/ ReplayExec

Spec == Init /\ [][Next]_vars

(***************************************************************************)
(* The fingerprints of two tag lists, at both entry points.                *)
(***************************************************************************)
InitFP ==
    /\ dbExists = FALSE
    /\ tables = EmptyTables
    /\ cap = CapInit
    /\ rep = RepInit
    /\ captured = {}
    /\ observed = {}
    /\ captures = 0
    /\ replays = 0
    /\ fp \in {[FpInit EXCEPT !.t1 = a, !.t2 = b] :
                a \in TagLists, b \in TagLists}
    /\ scan = ScanInit

\* The interceptor's parseConfig on the command lines of both tag lists.
FPInterceptor ==
    /\ "interceptor" \notin fp.parsed
    /\ fp' = [fp EXCEPT !.parsed = @ \cup {"interceptor"},
                !.c1 = InterceptorParseConfig(BuildArgs(fp.t1)),
                !.c2 = InterceptorParseConfig(BuildArgs(fp.t2))]
    /\ UNCHANGED <<dbExists, tables, cap, rep, captured, observed, captures, replays, scan>>

\* The executor's parseConfig on the command lines of both tag lists.
FPExecutor ==
    /\ "executor" \notin fp.parsed
    /\ fp' = [fp EXCEPT !.parsed = @ \cup {"executor"},
                !.r1 = ExecutorParseConfig(JoinTags(fp.t1), <<Program>>),
                !.r2 = ExecutorParseConfig(JoinTags(fp.t2), <<Program>>)]
    /\ UNCHANGED <<dbExists, tables, cap, rep, captured, observed, captures, replays, scan>>

NextFP == FPInterceptor \/ FPExecutor

SpecFP == InitFP /\ [][NextFP]_vars

(***************************************************************************)
(* The parser on build outputs made of declarations and link commands.     *)
(***************************************************************************)
\* Lines of a build output: two declarations of FOO, a declaration of BAR
\* whose value refers to FOO, and a link command that refers to both.
ScanLines ==
    {<<"FOO", "=", "/x/y">>, <<"FOO", "=", "/v">>,
     <<"BAR", "=", "$", "FOO", "/w">>,
     <<ToolLink, " ", "$", "FOO", "/z", " ", "$", "BAR">>}

InitScan ==
    /\ dbExists = FALSE
    /\ tables = EmptyTables
    /\ cap = CapInit
    /\ rep = RepInit
    /\ captured = {}
    /\ observed = {}
    /\ captures = 0
    /\ replays = 0
    /\ fp = FpInit
    /\ scan \in {[ScanInit EXCEPT !.out = out] :
                    out \in BoundedSeq(ScanLines, MaxLines)}

\* parseGoBuildOutput on the build output.
ScanParse ==
    /\ ~scan.done
    /\ scan' = [scan EXCEPT !.done = TRUE,
                            !.parsed = parseGoBuildOutput(scan.out)]
    /\ UNCHANGED <<dbExists, tables, cap, rep, captured, observed, captures,
                   replays, fp>>

NextScan == ScanParse

SpecScan == InitScan /\ [][NextScan]_vars

(***************************************************************************)
(* Executor runs in sequence on a cache that no interceptor writes.        *)
(***************************************************************************)
\* Tag lists and build outputs of the interceptor runs that made the cache.
ROTags == {<<>>, << <<"A">> >>}
ROTraces == {TraceGood, TraceStripped, TraceNoMain, TraceDup}

\* The tables after an interceptor run for the tag list T whose last build
\* output was out: main hands the parse of that output to writeToDB.
CaptureOf(store, T, out) ==
    writeToDB(store, InterceptorParseConfig(BuildArgs(T)),
              parseGoBuildOutput(out).linkCommands,
              parseGoBuildOutput(out).filesContent).tables

\* No cache file, or the cache after two interceptor runs.
InitRO ==
    /\ \/ dbExists = FALSE /\ tables = EmptyTables
       \/ /\ dbExists = TRUE
          /\ tables \in {CaptureOf(CaptureOf(EmptyTables, T1, o1), T2, o2) :
                            T1 \in ROTags, T2 \in ROTags,
                            o1 \in ROTraces, o2 \in ROTraces}
    /\ cap = CapInit
    /\ rep = RepInit
    /\ captured = {}
    /\ observed = {}
    /\ captures = 0
    /\ replays = 0
    /\ fp = FpInit
    /\ scan = ScanInit

LookupStart == ReplayStartUpTo(MaxLookups, TRUE)

NextRO ==
    \/ LookupStart
    \/ ReplayBegin
    \/ ReplayLookup
    \/ ReplayImportcfg
    \/ ReplayCreateTemp
    \/ ReplayArgs
    \/ ReplayLink
    \/ ReplayRemove
    \/ ReplayExec

SpecRO == InitRO /\ [][NextRO]_vars

(***************************************************************************)
(* An executor run and the writeToDB of an interceptor run, interleaved.   *)
(***************************************************************************)
\* Tag lists and build outputs of the interceptor that runs concurrently.
CCTags == {<<>>, << <<"A">> >>, << <<"B">> >>}
CCTraces == {out \in {TraceGood, TraceAlt, TraceStripped, TraceDup} :
                areAllFilesInCache(parseGoBuildOutput(out).filesContent)}

\* The interceptor for the tag list T when it calls writeToDB: its first
\* build printed out, whose files are all in the cache.
AtWrite(T, out) ==
    [CapInit EXCEPT
        !.config = InterceptorParseConfig(BuildArgs(T)),
        !.pc = "write",
        !.goEnvCached = TRUE,
        !.traces = <<out>>,
        !.linkCommands = parseGoBuildOutput(out).linkCommands,
        !.filesContent = parseGoBuildOutput(out).filesContent,
        !.allFilesInCache = TRUE,
        !.remainingAttempts = Attempts - 1]

\* No cache file, or the cache after one interceptor run; one interceptor
\* is about to write, and no executor runs yet.
InitCC ==
    /\ \/ dbExists = FALSE /\ tables = EmptyTables
       \/ /\ dbExists = TRUE
          /\ tables \in {CaptureOf(EmptyTables, T, out) :
                            T \in ROTags, out \in ROTraces}
    /\ cap \in {AtWrite(T, out) : T \in CCTags, out \in CCTraces}
    /\ rep = RepInit
    /\ captured = {}
    /\ observed = {}
    /\ captures = 1
    /\ replays = 0
    /\ fp = FpInit
    /\ scan = ScanInit

ConcurrentStart == ReplayStartUpTo(MaxReplays, FALSE)

NextCC ==
    \/ CaptureWrite
    \/ ConcurrentStart
    \/ ReplayBegin
    \/ ReplayLookup
    \/ ReplayImportcfg
    \/ ReplayCreateTemp
    \/ ReplayArgs
    \/ ReplayLink
    \/ ReplayRemove
    \/ ReplayExec

SpecCC == InitCC /\ [][NextCC]_vars

(***************************************************************************)
(* The parser on build outputs that stage files.                           *)
(***************************************************************************)
\* Lines of a build output: the markers that begin the staged files /a and
\* /b, the terminator, a content line, a line of the form NAME=VALUE and a
\* line that refers to NAME.
StagedLines ==
    {<<"cat", " ", ">", " ", "/a", " ", "<<", " ", "'EOF'">>,
     <<"cat", " ", ">", " ", "/b", " ", "<<", " ", "'EOF'">>,
     <<"EOF">>, ModinfoLine,
     <<"FOO", "=", "/v">>, <<"$", "FOO", "/z">>}

InitStaged ==
    /\ dbExists = FALSE
    /\ tables = EmptyTables
    /\ cap = CapInit
    /\ rep = RepInit
    /\ captured = {}
    /\ observed = {}
    /\ captures = 0
    /\ replays = 0
    /\ fp = FpInit
    /\ scan \in {[ScanInit EXCEPT !.out = out] :
                    out \in BoundedSeq(StagedLines, MaxLines)}

NextStaged == ScanParse

SpecStaged == InitStaged /\ [][NextStaged]_vars

(***************************************************************************)
(* writeToDB on link commands made of flags and paths.                     *)
(***************************************************************************)
\* Tokens of a link command: the two flags whose value is replaced, a
\* flag without value and a path.
ArgTokens == {FlagO, FlagImportcfg, <<"-s">>, <<"/x">>}

\* strings.Join(tokens, " ")
RECURSIVE JoinArgs(_)
JoinArgs(tokens) ==
    IF tokens = <<>> THEN <<>>
    ELSE Head(tokens)
         \o (IF Len(tokens) > 1 THEN <<Space>> ELSE <<>>)
         \o JoinArgs(Tail(tokens))

\* An empty cache; an interceptor about to write the link command of a
\* build output that has one link line of at most MaxArgs tokens.
InitArgs ==
    /\ dbExists = FALSE
    /\ tables = EmptyTables
    /\ cap \in {AtWrite(<<>>, << <<ToolLink, Space>> \o JoinArgs(tokens) >>) :
                    tokens \in BoundedSeq(ArgTokens, MaxArgs) \ {<<>>}}
    /\ rep = RepInit
    /\ captured = {}
    /\ observed = {}
    /\ captures = 1
    /\ replays = 0
    /\ fp = FpInit
    /\ scan = ScanInit

NextArgs == CaptureWrite

SpecArgs == InitArgs /\ [][NextArgs]_vars

(***************************************************************************)
(* writeToDB on manifests with well-formed and malformed lines.            *)
(***************************************************************************)
\* Lines of a manifest: two well-formed packagefile lines, a packagefile
\* line without "=", one without space after the directive, and a line
\* that is no packagefile line.
ManifestLineSet ==
    {PackagefileLine("main", CachedMain), PackagefileLine("fmt", CachedFmt),
     <<"packagefile", " ", "/cache/", "bad">>,
     <<"packagefile", "=", "/cache/", "nospace">>,
     ModinfoLine}

\* An empty cache; an interceptor about to write the link command of a
\* build output whose manifest has at most MaxManifest lines, all of them
\* in the cache.
InitManifest ==
    /\ dbExists = FALSE
    /\ tables = EmptyTables
    /\ cap \in {AtWrite(<<>>, Trace(manifest, <<CachedMain>>)) :
                manifest \in
                    {m \in BoundedSeq(ManifestLineSet, MaxManifest) :
                        areAllFilesInCache(
                            parseGoBuildOutput(
                                Trace(m, <<CachedMain>>)).filesContent)}}
    /\ rep = RepInit
    /\ captured = {}
    /\ observed = {}
    /\ captures = 1
    /\ replays = 0
    /\ fp = FpInit
    /\ scan = ScanInit

NextManifest == CaptureWrite

SpecManifest == InitManifest /\ [][NextManifest]_vars

(***************************************************************************)
(* The interceptor alone, each of its blocking calls returning.            *)
(***************************************************************************)
NextLoop ==
    \/ CaptureStart
    \/ CaptureRemove
    \/ CaptureBuild
    \/ CaptureWrite

\* os.Remove and go build -x return: main is single-threaded and goes on
\* with the statement after the call.
SpecLoop ==
    /\ Init
    /\ [][NextLoop]_vars
    /\ WF_vars(CaptureRemove)
    /\ WF_vars(CaptureBuild)

(***************************************************************************)
(* A capture and the replay that follows it with the same tag argument.    *)
(***************************************************************************)
\* The tag argument of a command line: no tags flag at all, or a tags flag
\* and its value (the empty string is JoinTags(<<>>)).
TagArgs ==
    {[given |-> FALSE, value |-> <<>>]}
    \cup {[given |-> TRUE, value |-> JoinTags(T)] : T \in TagLists}

\* interceptor -- go build [--tags value] -o foo .
TagBuildArgs(a) ==
    << <<"go">>, <<"build">> >>
    \o (IF a.given THEN << <<"--tags">>, a.value >> ELSE <<>>)
    \o << <<"-o">>, Program, <<".">> >>

\* No cache file, or the cache after one interceptor run; an interceptor
\* run with the tag argument fp.t1 is about to write.
InitTags ==
    /\ \/ dbExists = FALSE /\ tables = EmptyTables
       \/ /\ dbExists = TRUE
          /\ tables \in {CaptureOf(EmptyTables, T, TraceGood) : T \in ROTags}
    /\ fp \in {[FpInit EXCEPT !.t1 = a] : a \in TagArgs}
    /\ cap \in {[AtWrite(<<>>, out) EXCEPT
                    !.config = InterceptorParseConfig(TagBuildArgs(fp.t1))] :
                    out \in {TraceGood, TraceStripped}}
    /\ rep = RepInit
    /\ captured = {}
    /\ observed = {}
    /\ captures = 1
    /\ replays = 0
    /\ scan = ScanInit

\* executor [--tags value] foo arg, once the interceptor has ended: the
\* flag package gives the default "" to a tags flag that is not given.
SameTagsReplayStart ==
    /\ rep.pc = "idle"
    /\ cap.pc = "done"
    /\ replays < MaxReplays
    /\ replays' = replays + 1
    /\ rep' = [RepInit EXCEPT
                !.config = ExecutorParseConfig(
                              IF fp.t1.given THEN fp.t1.value ELSE <<>>,
                              <<Program, <<"arg">> >>),
                !.before = [dbExists |-> dbExists, tables |-> tables],
                !.pc = "begin"]
    /\ UNCHANGED <<dbExists, tables, cap, captured, observed, captures, fp,
                   scan>>

NextTags ==
    \/ CaptureWrite
    \/ SameTagsReplayStart
    \/ ReplayBegin
    \/ ReplayLookup
    \/ ReplayImportcfg
    \/ ReplayCreateTemp
    \/ ReplayArgs
    \/ ReplayLink
    \/ ReplayRemove
    \/ ReplayExec

SpecTags == InitTags /\ [][NextTags]_vars

(***************************************************************************)
(* Properties.                                                             *)
(***************************************************************************)
\* The last capture stored a link command and ended without error.
CapturedLine ==
    cap.pc = "done" /\ cap.outcome = "ok" /\ cap.linkCommands # <<>>

\* The executor runs right after that capture, for its fingerprint.
ReplayOfCaptured ==
    /\ CapturedLine
    /\ rep.config.status = "ok"
    /\ Fingerprint(rep.config) = Fingerprint(cap.config)

\* The executor ended, and not because a temporary file or the cache file
\* could not be opened.
ReplayEnded == rep.pc = "done" /\ rep.outcome \notin {"open", "mktemp"}

\* The whitespace tokenization of the observed link command.
ObservedTokens == Split(cap.linkCommands[1], Space)

\* The OUTPUT_PATH, IMPORTCFG_PATH and MAIN_PACKAGE positions of the line.
SubstitutedPositions ==
    {i \in 1..Len(ObservedTokens) :
        \/ i > 1 /\ ObservedTokens[i - 1] \in {FlagO, FlagImportcfg}
        \/ \E p \in tables.package_file :
            /\ p.file = ObservedTokens[i]
            /\ p.file = ObservedTokens[Len(ObservedTokens)]}

ArgsMatchObserved ==
    /\ Len(rep.args) = Len(ObservedTokens)
    /\ \A i \in 1..Len(ObservedTokens) :
        i \notin SubstitutedPositions => rep.args[i] = ObservedTokens[i]

\* C1: after a capture that stored a link command, a replay of the same
\* fingerprint builds an argument vector as long as the tokenization of the
\* observed line and equal to it outside the OUTPUT_PATH, IMPORTCFG_PATH
\* and MAIN_PACKAGE positions.
C1_ReplayRebuildsObservedArgs ==
    (ReplayOfCaptured /\ ReplayEnded) => (rep.argsBuilt /\ ArgsMatchObserved)

\* Every argument vector the executor does build matches the observed line.
BuiltArgsMatchObserved ==
    (ReplayOfCaptured /\ rep.argsBuilt) => ArgsMatchObserved

\* C2: a capture whose write sequence fails leaves the store as it was
\* before the capture.
C2_FailedCaptureRollsBack ==
    (cap.pc = "done" /\ cap.outcome = "write") => tables = cap.tablesBefore

\* The trace passes the all-files-in-cache check.
Stable(out) == areAllFilesInCache(parseGoBuildOutput(out).filesContent)

\* C3: when none of the three attempts gives a trace that passes the
\* all-files-in-cache check the capture fails and writes nothing; whenever
\* a capture wrote to the store, its last trace passed the check.
C3_UnstableTraceNeverWritten ==
    /\ (cap.pc = "done" /\ Len(cap.traces) = Attempts
            /\ \A k \in 1..Attempts : ~Stable(cap.traces[k]))
        => (cap.exit # SuccessExit /\ ~cap.wrote)
    /\ (cap.pc = "done" /\ cap.wrote)
        => Stable(cap.traces[Len(cap.traces)])

\* The package file paths and the link command tokens of a parsed trace.
PathsOf(parsed) ==
    UNION {{Cut(Cut(parsed.filesContent[f][i], Space).after, "=").after :
                i \in {i \in 1..Len(parsed.filesContent[f]) :
                    HasPrefix(parsed.filesContent[f][i], Packagefile)}} :
            f \in DOMAIN parsed.filesContent}
    \cup UNION {{Split(parsed.linkCommands[j], Space)[i] :
                    i \in 1..Len(Split(parsed.linkCommands[j], Space))} :
                j \in 1..Len(parsed.linkCommands)}

\* What only the attempts before the last one mention.
RejectedOnly ==
    UNION {PathsOf(parseGoBuildOutput(cap.traces[k])) :
            k \in 1..(Len(cap.traces) - 1)}
    \ PathsOf(parseGoBuildOutput(cap.traces[Len(cap.traces)]))

\* C4: when attempt k fails the check and attempt k+1 passes it, the loop
\* stops at attempt k+1 and what is written to the store is what was
\* parsed from the trace of attempt k+1: nothing of a rejected attempt.
C4_AcceptedAttemptIsPersisted ==
    \A k \in 1..(Len(cap.traces) - 1) :
        (~Stable(cap.traces[k]) /\ Stable(cap.traces[k + 1])) =>
            LET accepted == parseGoBuildOutput(cap.traces[k + 1])
                rejected == RejectedOnly
            IN  /\ Len(cap.traces) = k + 1
                /\ cap.pc \in {"write", "done"}
                /\ cap.linkCommands = accepted.linkCommands
                /\ cap.filesContent = accepted.filesContent
                /\ cap.wrote =>
                    /\ tables = writeToDB(cap.tablesBefore, cap.config,
                                    accepted.linkCommands,
                                    accepted.filesContent).tables
                    /\ \A p \in tables.package_file
                                \ cap.tablesBefore.package_file :
                            p.file \notin rejected
                    /\ \A a \in tables.link_command_args
                                \ cap.tablesBefore.link_command_args :
                            a.arg \notin rejected

C4_Witness ==
    /\ cap.pc = "done" /\ cap.wrote /\ cap.outcome = "ok"
    /\ Len(cap.traces) = 2
    /\ ~Stable(cap.traces[1]) /\ Stable(cap.traces[2])
    /\ RejectedOnly # {}
    /\ tables.link_command_args # cap.tablesBefore.link_command_args
    /\ tables.package_file # cap.tablesBefore.package_file

\* The lines of the captured manifest: the staged file named by the token
\* after -importcfg.
CapturedManifest ==
    LET keys == {ObservedTokens[i + 1] :
                    i \in {i \in 1..(Len(ObservedTokens) - 1) :
                            ObservedTokens[i] = FlagImportcfg}}
    IN  UNION {{MapGet(cap.filesContent, key)[i] :
                    i \in 1..Len(MapGet(cap.filesContent, key))} :
                key \in keys}

\* C5: after a successful capture, the lines a replay writes to the
\* temporary manifest are exactly the lines of the captured manifest.
C5_ReplayManifestIsCaptured ==
    (ReplayOfCaptured /\ ReplayEnded) =>
        (rep.linkCommandID # 0 /\ rep.importcfg = CapturedManifest)

\* Every manifest the executor does write has the lines of the captured one.
WrittenManifestIsCaptured ==
    (ReplayOfCaptured /\ rep.importcfgFile) => rep.importcfg = CapturedManifest

Count(T, x) == Cardinality({i \in 1..Len(T) : T[i] = x})

Elements(T) == {T[i] : i \in 1..Len(T)}

IsPermutation(T1, T2) ==
    /\ Len(T1) = Len(T2)
    /\ \A x \in Elements(T1) \cup Elements(T2) : Count(T1, x) = Count(T2, x)

\* C6: tag lists that are permutations of one another give the same
\* fingerprint, at the interceptor and at the executor.
C6_PermutationsSameFingerprint ==
    IsPermutation(fp.t1, fp.t2) =>
        /\ "interceptor" \in fp.parsed
            => Fingerprint(fp.c1) = Fingerprint(fp.c2)
        /\ "executor" \in fp.parsed
            => Fingerprint(fp.r1) = Fingerprint(fp.r2)

C6_Witness ==
    /\ fp.parsed = {"interceptor", "executor"}
    /\ IsPermutation(fp.t1, fp.t2)
    /\ fp.t1 # fp.t2
    /\ Fingerprint(fp.c1) = Fingerprint(fp.c2)
    /\ Fingerprint(fp.r1) = Fingerprint(fp.r2)

\* C7: tag lists with the same distinct tags, whatever the multiplicities,
\* give the same fingerprint (the canonical array is deduplicated).
C7_SameTagsSameFingerprint ==
    (Elements(fp.t1) = Elements(fp.t2) /\ "interceptor" \in fp.parsed) =>
        Fingerprint(fp.c1) = Fingerprint(fp.c2)

C9_CacheMissStatusIsDistinct ==
    (rep.pc = "done" /\ rep.outcome \in
        {"open", "query", "mktemp", "linker-launch", "remove", "exec-failed"})
        => rep.exit # NoRowsExit

\* The key (program name, TagSet id) of the capture was in the store
\* before its transaction.
KeyExistedBefore ==
    \E lc \in cap.tablesBefore.link_command :
        /\ lc.binary_name = cap.config.binaryName
        /\ \E bt \in cap.tablesBefore.build_tags :
            /\ bt.build_tags_id = lc.build_tags_id
            /\ bt.tags = Fingerprint(cap.config).tags

\* C10: upserting a LinkInvocation whose key is already in the store (an
\* earlier capture, or an earlier line of this capture) does not fail, and
\* the key keeps one row.
C10_ReobservedKeyIsReused ==
    (cap.pc = "done" /\ cap.wrote
        /\ (KeyExistedBefore \/ Len(cap.linkCommands) >= 2)) =>
        /\ cap.failedAt # "insertLinkCommand"
        /\ Cardinality({lc \in tables.link_command :
                /\ lc.binary_name = cap.config.binaryName
                /\ \E bt \in tables.build_tags :
                    /\ bt.build_tags_id = lc.build_tags_id
                    /\ bt.tags = Fingerprint(cap.config).tags}) = 1

\* args is the tokenization of an observed line with the output path and
\* the manifest path replaced by the executor's temporary files.
ResolvesTo(args, tokens) ==
    /\ Len(args) = Len(tokens)
    /\ \A i \in 1..Len(tokens) :
        args[i] = IF i > 1 /\ tokens[i - 1] = FlagO THEN BinaryFileName
                  ELSE IF i > 1 /\ tokens[i - 1] = FlagImportcfg
                  THEN ImportcfgFileName
                  ELSE tokens[i]

\* The link_command rows of a fingerprint.
RowsOf(f) ==
    {lc \in tables.link_command :
        /\ lc.binary_name = f.binaryName
        /\ \E bt \in tables.build_tags :
            bt.build_tags_id = lc.build_tags_id /\ bt.tags = f.tags}

\* C11: captures of one program name under different canonical tag sets
\* have distinct link_command rows, every link_command_args row belongs to
\* exactly one link_command row, and the argument vector a replay builds is
\* the one of the capture of its own fingerprint.
C11_TagSetsHaveOwnInvocations ==
    /\ \A o1, o2 \in observed :
        (o1.fp.binaryName = o2.fp.binaryName /\ o1.fp.tags # o2.fp.tags) =>
            /\ o1.id # o2.id
            /\ RowsOf(o1.fp) \cap RowsOf(o2.fp) = {}
    /\ \A o \in observed : {lc.link_command_id : lc \in RowsOf(o.fp)} = {o.id}
    /\ (cap.pc = "done" /\ cap.outcome = "ok" /\ cap.linkCommands # <<>>) =>
            \E o \in observed : o.fp = Fingerprint(cap.config)
    /\ \A a \in tables.link_command_args :
        Cardinality({lc \in tables.link_command :
            lc.link_command_id = a.link_command_id}) = 1
    /\ rep.argsBuilt =>
        \E o \in observed :
            /\ o.fp = Fingerprint(rep.config)
            /\ o.id = rep.linkCommandID
            /\ ResolvesTo(rep.args, o.tokens)

C11_Witness ==
    /\ rep.argsBuilt
    /\ \E o1, o2 \in observed :
        /\ o1.fp.binaryName = o2.fp.binaryName
        /\ o1.fp.tags # o2.fp.tags
        /\ o1.tokens # o2.tokens
        /\ o1.fp = Fingerprint(rep.config)
        /\ o2.fp = Fingerprint(cap.config)
        /\ ResolvesTo(rep.args, o1.tokens)

\* The file paths of the artifacts the packagefile lines of a manifest list.
ListedFiles(manifest) ==
    {Cut(Cut(line, Space).after, "=").after :
        line \in {line \in manifest :
            /\ Cut(line, Space).ok
            /\ Cut(line, Space).before = Packagefile
            /\ Cut(Cut(line, Space).after, "=").ok}}

\* The last token of an observed line, a positional one.
LastToken(o) == o.tokens[Len(o.tokens)]

HasEntryArtifact(o) ==
    /\ ~o.err
    /\ Len(o.tokens) > 1
    /\ o.tokens[Len(o.tokens) - 1] \notin {FlagO, FlagImportcfg}
    /\ LastToken(o) \in ListedFiles(o.manifest)

\* C12: when the last token of a captured line is the file of an artifact
\* its manifest lists, the link command's main_package_id is that artifact,
\* the argument row of highest position holds "MAIN PACKAGE", and a replay
\* resolves that position to the stored file path again.
C12_EntryArtifactIsTagged ==
    \A o \in observed :
        HasEntryArtifact(o) =>
            /\ \E lc \in tables.link_command, p \in tables.package_file :
                /\ lc.link_command_id = o.id
                /\ lc.main_package_id = p.package_file_id
                /\ p.file = LastToken(o)
            /\ \E a \in tables.link_command_args :
                /\ a.link_command_id = o.id
                /\ a.pos = Len(o.tokens) - 1
                /\ a.arg = MainPackage
            /\ (rep.argsBuilt /\ rep.linkCommandID = o.id) =>
                /\ rep.mainPackage = LastToken(o)
                /\ Len(rep.args) = Len(o.tokens)
                /\ rep.args[Len(rep.args)] = LastToken(o)

C12_Witness ==
    \E o \in observed :
        /\ HasEntryArtifact(o)
        /\ Cardinality(ListedFiles(o.manifest)) > 1
        /\ rep.argsBuilt /\ rep.linkCommandID = o.id
        /\ rep.args[Len(rep.args)] = LastToken(o)
        /\ \E a \in tables.link_command_args :
            a.link_command_id = o.id /\ a.arg = MainPackage

\* The declarations in force when line i of a build output is read: each
\* name declared by a line before i, with the value of the last such line.
\* A line is read with the declarations in force before it.
RECURSIVE EnvBefore(_, _)
EnvBefore(out, i) ==
    LET Read(j) == ReplaceEnvVars(out[j], 1, EnvBefore(out, j))
        decls == {j \in 1..(i - 1) : EnvVarDefMatch(Read(j))}
        NameOf(j) == Cut(Read(j), "=").before
        LastOf(n) == CHOOSE j \in decls :
                        /\ NameOf(j) = n
                        /\ \A k \in decls : NameOf(k) = n => k <= j
    IN  [n \in {NameOf(j) : j \in decls} |->
            Cut(Read(LastOf(n)), "=").after]

\* The link commands of a build output, each read with the declarations in
\* force before its line.
RECURSIVE LinkCommandsUpTo(_, _)
LinkCommandsUpTo(out, i) ==
    IF i = 0 THEN <<>>
    ELSE LET line == ReplaceEnvVars(out[i], 1, EnvBefore(out, i))
         IN  LinkCommandsUpTo(out, i - 1)
             \o (IF ~EnvVarDefMatch(line) /\ LinkCommandMatch(line)
                 THEN <<LinkCommandArgs(line)>> ELSE <<>>)

\* C13: the parser reads every line with each $NAME replaced by the value
\* of the last NAME=VALUE line before it, untouched when there is none; a
\* declaration never changes a line before it.
C13_SubstitutionIsForwardOnly ==
    scan.done =>
        /\ scan.parsed.linkCommands = LinkCommandsUpTo(scan.out, Len(scan.out))
        /\ \A i \in 1..Len(scan.out) :
            (/\ scan.out[i] =
                    <<ToolLink, " ", "$", "FOO", "/z", " ", "$", "BAR">>
             /\ \A j \in 1..(i - 1) : scan.out[j][1] # "FOO")
                => \E k \in 1..Len(scan.parsed.linkCommands) :
                        HasPrefix(scan.parsed.linkCommands[k],
                                  <<"$", "FOO", "/z">>)

C13_Witness ==
    /\ scan.done
    /\ scan.out = << <<ToolLink, " ", "$", "FOO", "/z", " ", "$", "BAR">>,
                     <<"FOO", "=", "/x/y">>, <<"FOO", "=", "/v">>,
                     <<ToolLink, " ", "$", "FOO", "/z", " ", "$", "BAR">> >>
    /\ scan.parsed.linkCommands =
        << <<"$", "FOO", "/z", " ", "$", "BAR">>,
           <<"/v", "/z", " ", "$", "BAR">> >>

\* C14: when the linker was launched and exited with a code c other than
\* 0, the executor prints the linker's standard error, ends with exit
\* status c and never replaces the process image.
C14_LinkerExitCodeIsForwarded ==
    (rep.pc = "done" /\ rep.linkerRan /\ rep.linkerExit # SuccessExit) =>
        /\ rep.exit = rep.linkerExit
        /\ Contains(rep.logged, rep.linkerStderr)
        /\ ~rep.handedOff

C14_Witness ==
    /\ rep.pc = "done" /\ rep.linkerRan
    /\ rep.linkerExit = 2 /\ rep.exit = 2
    /\ rep.linkerStderr # <<>>
    /\ Contains(rep.logged, rep.linkerStderr)
    /\ ~rep.handedOff

\* C15: after a successful linker run, a failure to remove the temporary
\* importcfg file does not keep the executor from replacing the process
\* image with the linked binary.
C15_RemoveFailureDoesNotBlockHandoff ==
    (rep.pc = "done" /\ rep.linkerRan /\ rep.linkerExit = SuccessExit
        /\ rep.outcome \notin {"exec-failed"}) => rep.handedOff

\* C16: a capture whose accepted trace has no link command does not end as
\* a successful capture: its exit status is not the one of success.
C16_NoLinkLineIsSurfaced ==
    (cap.pc = "done" /\ cap.traces # <<>>
        /\ Stable(cap.traces[Len(cap.traces)])
        /\ parseGoBuildOutput(cap.traces[Len(cap.traces)]).linkCommands = <<>>
        /\ cap.outcome \notin {"build", "goenv", "goenv-exit", "remove"})
        => cap.exit # SuccessExit

\* The command line does not start with go build, or has no -o followed
\* by a value.
BadCommandLine(args) ==
    \/ Len(args) < 2
    \/ args[1] # <<"go">>
    \/ args[2] # <<"build">>
    \/ ~\E i \in 1..(Len(args) - 1) : args[i] = FlagO /\ args[i + 1] # <<>>

\* C17: on such a command line the interceptor ends with a configuration
\* error without having run go build or go env and without having opened
\* or written the store.
C17_BadCommandLineFailsFirst ==
    (cap.pc # "idle" /\ BadCommandLine(cap.config.args)) =>
        /\ cap.pc = "done"
        /\ cap.outcome \in {"usage", "config"}
        /\ cap.exit # SuccessExit
        /\ cap.traces = <<>> /\ ~cap.goEnvCached
        /\ ~cap.wrote /\ cap.failedAt = "none"

C17_Witness ==
    /\ cap.pc = "done" /\ cap.outcome = "config"
    /\ cap.config.args = << <<"go">>, <<"build">>, <<".">> >>
    /\ dbExists /\ tables.link_command # {}
    /\ cap.traces = <<>> /\ ~cap.wrote

\* Some line of the manifest that is no packagefile line occurs twice.
HasDuplicateLine(lines) ==
    \E i, j \in 1..Len(lines) :
        i # j /\ lines[i] = lines[j] /\ ~HasPrefix(lines[i], Packagefile)

\* C18: when the manifest of the captured line holds the same additional
\* line more than once, the capture succeeds and the store holds one row
\* for that line.
C18_DuplicateLinesCollapse ==
    (cap.pc = "done" /\ cap.wrote /\ ~KeyExistedBefore
        /\ Len(cap.linkCommands) = 1
        /\ \E k \in DOMAIN cap.filesContent :
            /\ k \in {ObservedTokens[i + 1] :
                        i \in {i \in 1..(Len(ObservedTokens) - 1) :
                                ObservedTokens[i] = FlagImportcfg}}
            /\ HasDuplicateLine(cap.filesContent[k])) =>
        /\ cap.outcome = "ok"
        /\ \A o \in observed :
            o.fp = Fingerprint(cap.config) =>
                \A line \in {l \in o.manifest : ~HasPrefix(l, Packagefile)} :
                    [link_command_id |-> o.id, line |-> line]
                        \in tables.importcfg_additional_lines

\* C19: an executor run leaves the cache file and its tables as they were
\* when it started, and two runs for the same key with no capture between
\* them get the same lookup result, the same link command and main package,
\* and the same set of importcfg lines (packagefile and other lines).
C19_ReplayLeavesStoreUnchanged ==
    /\ rep.pc # "idle" =>
        /\ dbExists = rep.before.dbExists
        /\ tables = rep.before.tables
    /\ \A i \in DOMAIN rep.prev :
        LET Same(p) ==
                /\ p.before = rep.before
                /\ ( /\ p.config.status = "ok"
                     /\ rep.config.status = "ok"
                     /\ Fingerprint(p.config) = Fingerprint(rep.config) ) =>
                    /\ (p.lookup # "none" /\ rep.lookup # "none") =>
                        /\ p.lookup = rep.lookup
                        /\ p.linkCommandID = rep.linkCommandID
                        /\ p.mainPackage = rep.mainPackage
                    /\ (p.importcfgRead /\ rep.importcfgRead) =>
                        p.importcfg = rep.importcfg
        IN  Same(rep.prev[i])

\* Two runs for the same key have both read a manifest with packagefile
\* lines and other lines, and the second has ended.
C19_Witness ==
    /\ rep.pc = "done"
    /\ rep.importcfgRead
    /\ \E i \in DOMAIN rep.prev :
        /\ rep.prev[i].importcfgRead
        /\ rep.prev[i].config.status = "ok"
        /\ Fingerprint(rep.prev[i].config) = Fingerprint(rep.config)
    /\ \E l \in rep.importcfg : l[1] = "packagefile"
    /\ \E l \in rep.importcfg : l[1] # "packagefile"

\* C20: an executor run for a key F, while interceptors commit only other
\* keys, gets from each of its queries what the same query gets on the cache
\* as it was when the run started: the same lookup result, the same set of
\* importcfg lines and the same argument vector.
C20_ConcurrentCaptureOfOtherKey ==
    (rep.config.status = "ok" /\ Fingerprint(rep.config) \notin rep.writers) =>
        LET Same(base) ==
                /\ rep.lookup # "none" =>
                    /\ rep.lookup = base.status
                    /\ rep.linkCommandID = base.linkCommandID
                    /\ rep.mainPackage = base.mainPackage
                /\ rep.importcfgRead =>
                    rep.importcfg = getImportcfg(rep.before.tables,
                                                 base.linkCommandID)
                /\ rep.argsBuilt =>
                    rep.args = getLinkerCommandArgs(rep.before.tables,
                                    base.linkCommandID, base.mainPackage,
                                    BinaryFileName, ImportcfgFileName)
        IN  Same(getLinkCommandID(rep.before.tables, rep.config.binaryName,
                                  rep.config.buildTags))

\* An executor built its arguments from a cache to which an interceptor
\* committed the rows of another key after the executor had started; the
\* manifest it read has a packagefile line.
C20_Witness ==
    /\ rep.argsBuilt
    /\ rep.args # <<>>
    /\ rep.writers # {}
    /\ Fingerprint(rep.config) \notin rep.writers
    /\ rep.snap # rep.before.tables
    /\ \E l \in rep.importcfg : l[1] = "packagefile"

\* The variables of the scanner loop before it reads line i of out.
ParseBefore(out, i) ==
    ParseLines([currentFile |-> <<>>, envVarMap |-> EmptyMap,
                filesContent |-> EmptyMap, linkCommands |-> <<>>],
               SubSeq(out, 1, i - 1))

\* Line i of out as the loop reads it: after the substitution.
LineRead(out, i) == ReplaceEnvVars(out[i], 1, ParseBefore(out, i).envVarMap)

\* C21: a line read while a staged file is active, that is neither a marker
\* beginning a staged file nor the terminator EOF, is appended after the
\* substitution to the content of that file and leaves the variable mapping
\* as it was, also when it has the form NAME=VALUE.
C21_StagedLinesAreAppended ==
    scan.done =>
        \A i \in 1..Len(scan.out) :
            LET Appended(st, line, next) ==
                    ( /\ st.currentFile # <<>>
                      /\ ~StartFileMatch(line)
                      /\ ~EndFileMatch(line) ) =>
                        /\ next.filesContent =
                            MapPut(st.filesContent, st.currentFile,
                                   Append(MapGet(st.filesContent,
                                                 st.currentFile), line))
                        /\ next.envVarMap = st.envVarMap
            IN  Appended(ParseBefore(scan.out, i), LineRead(scan.out, i),
                         ParseBefore(scan.out, i + 1))

\* C22: a marker beginning a staged file, read while another staged file is
\* active, makes the file it names the active one and is not appended to
\* the content of the file that was active.
C22_NewStagedFileWins ==
    scan.done =>
        \A i \in 1..Len(scan.out) :
            LET Switched(st, line, next) ==
                    (st.currentFile # <<>> /\ StartFileMatch(line)) =>
                        /\ next.currentFile = StartFileName(line)
                        /\ next.filesContent = st.filesContent
            IN  Switched(ParseBefore(scan.out, i), LineRead(scan.out, i),
                         ParseBefore(scan.out, i + 1))

\* The FILE of a line "packagefile NAME=FILE".
FileOf(line) == Cut(Cut(line, Space).after, "=").after

\* Every packagefile line of the manifest is well formed.
WellFormedManifest(manifest) ==
    \A line \in manifest :
        HasPrefix(line, Packagefile) =>
            /\ Cut(line, Space).ok
            /\ Cut(line, Space).before = Packagefile
            /\ Cut(Cut(line, Space).after, "=").ok

\* C23: no two package_file rows share a file; and when writeToDB has
\* stored the link command of a well-formed manifest, every packagefile
\* line whose FILE was already the file of a package_file row is linked,
\* without error, to that row, whatever the package of the row.
C23_StoredArtifactIsFetched ==
    /\ \A p \in tables.package_file, q \in tables.package_file :
        p.file = q.file => p = q
    /\ ( /\ cap.pc = "done"
         /\ cap.wrote
         /\ cap.failedAt \in {"none", "insertPackageFile"}
         /\ Len(cap.linkCommands) = 1 ) =>
        LET Fetched(manifest) ==
                WellFormedManifest(manifest) =>
                    \A line \in manifest :
                        ( /\ HasPrefix(line, Packagefile)
                          /\ \E p \in cap.tablesBefore.package_file :
                                p.file = FileOf(line) ) =>
                            /\ cap.failedAt = "none"
                            /\ \E p \in tables.package_file,
                                  lc \in tables.link_command
                                        \ cap.tablesBefore.link_command :
                                /\ p.file = FileOf(line)
                                /\ [link_command_id |-> lc.link_command_id,
                                    package_file_id |-> p.package_file_id]
                                      \in tables.link_command_package_file
        IN  Fetched(Observed(cap.linkCommands[1], cap.filesContent))

\* The argument stored at a position of the link command just written.
StoredArg(pos) ==
    (CHOOSE r \in tables.link_command_args : r.pos = pos).arg

\* The interceptor has written its link command, its only one.
ArgsWritten ==
    /\ cap.pc = "done" /\ cap.wrote /\ cap.failedAt = "none"
    /\ Len(cap.linkCommands) = 1
    /\ Cardinality(tables.link_command) = 1

\* C24 as stated: the argument at a position whose preceding token of the
\* observed line is -o or -importcfg is the placeholder, and every other
\* position holds the observed token.
C24_PlaceholderAfterObservedFlag ==
    ArgsWritten =>
        LET Stored(tokens) ==
                /\ Cardinality(tables.link_command_args) = Len(tokens)
                /\ \A i \in 1..Len(tokens) :
                    StoredArg(i - 1) =
                        IF i > 1 /\ tokens[i - 1] \in {FlagO, FlagImportcfg}
                        THEN Placeholder ELSE tokens[i]
        IN  Stored(Split(cap.linkCommands[1], Space))

\* Token i of the line is replaced: the token before it is -o or
\* -importcfg and was not itself replaced.
RECURSIVE Replaced(_, _)
Replaced(tokens, i) ==
    /\ i > 1
    /\ tokens[i - 1] \in {FlagO, FlagImportcfg}
    /\ ~Replaced(tokens, i - 1)

\* C24, amended: the argument at a position whose preceding token is -o or
\* -importcfg, and was stored as such, is the placeholder; every other
\* position holds the observed token, at its position in the line.
C24_PlaceholderAfterStoredFlag ==
    ArgsWritten =>
        LET Stored(tokens) ==
                /\ Cardinality(tables.link_command_args) = Len(tokens)
                /\ \A i \in 1..Len(tokens) :
                    StoredArg(i - 1) =
                        IF Replaced(tokens, i) THEN Placeholder
                        ELSE tokens[i]
        IN  Stored(Split(cap.linkCommands[1], Space))

\* The line -importcfg -o /x was written: the value of -importcfg, which is
\* -o, is replaced and the path after it is stored.
C24_Witness ==
    /\ ArgsWritten
    /\ Split(cap.linkCommands[1], Space) = <<FlagImportcfg, FlagO, <<"/x">> >>
    /\ StoredArg(0) = FlagImportcfg
    /\ StoredArg(1) = Placeholder
    /\ StoredArg(2) = <<"/x">>

\* A line that starts with the packagefile directive and is not well
\* formed.
Malformed(line) ==
    /\ HasPrefix(line, Packagefile)
    /\ ~WellFormedManifest({line})

C26_BuildFailureIsFatal ==
    [][ /\ cap'.buildExit # SuccessExit =>
            /\ cap'.pc = "done"
            /\ cap'.outcome = "build"
            /\ cap'.exit = FatalExit
            /\ ~cap'.wrote
            /\ tables' = tables
            /\ dbExists' = dbExists
        /\ (cap.buildExit = SuccessExit /\ cap'.buildExit # SuccessExit) =>
            /\ cap'.traces = cap.traces
            /\ cap'.remainingAttempts = cap.remainingAttempts
        /\ (cap.buildExit # SuccessExit /\ cap' # cap) =>
            /\ cap'.buildExit = SuccessExit
            /\ cap'.traces = <<>> ]_vars

\* The second build of a run failed, on a cache that holds a link command:
\* the run ended with exit status 1 and two attempts left.
C26_Witness ==
    /\ cap.pc = "done"
    /\ cap.buildExit # SuccessExit
    /\ cap.outcome = "build"
    /\ Len(cap.traces) = 1
    /\ cap.remainingAttempts = Attempts - 1
    /\ tables.link_command # {}

\* The trace of an attempt passes the check of the loop.
Passes(out) == areAllFilesInCache(parseGoBuildOutput(out).filesContent)

\* The attempts made and left by the loop of the interceptor.
LoopBounded ==
    /\ cap.remainingAttempts \in 0..Attempts
    /\ Len(cap.traces) = Attempts - cap.remainingAttempts
    /\ \A i \in 1..(Len(cap.traces) - 1) : ~Passes(cap.traces[i])
    /\ cap.pc \in {"remove", "build"} =>
        /\ cap.remainingAttempts > 0
        /\ \A i \in 1..Len(cap.traces) : ~Passes(cap.traces[i])
    /\ (cap.pc = "write" \/ cap.wrote) =>
        /\ Len(cap.traces) >= 1
        /\ \/ Passes(cap.traces[Len(cap.traces)])
           \/ Len(cap.traces) = Attempts

\* A build starts right after an os.Remove that removed the binary or found
\* none, and any other error of os.Remove ends the run with status 1.
RemoveBeforeBuild ==
    /\ (cap'.pc = "build" /\ cap.pc # "build") =>
        /\ cap.pc = "remove"
        /\ cap'.removeErr \in {"removed", "notexist"}
    /\ (cap.pc = "remove" /\ cap'.removeErr \in {"removed", "notexist"}) =>
        cap'.pc = "build"
    /\ Len(cap'.traces) > Len(cap.traces) =>
        /\ cap.pc = "build"
        /\ cap.removeErr \in {"removed", "notexist"}
    /\ cap'.removeErr = "error" =>
        /\ cap'.pc = "done"
        /\ cap'.outcome = "remove"
        /\ cap'.exit = FatalExit
        /\ ~cap'.wrote

\* C27: the loop of the interceptor ends; it builds at least once before
\* writeToDB and at most Attempts times, it goes on exactly while the last
\* trace fails the check, and every build follows an os.Remove that
\* succeeded or found no file, any other error of os.Remove being fatal.
C27_LoopTerminates ==
    /\ []LoopBounded
    /\ [][RemoveBeforeBuild]_vars
    /\ (cap.pc \in {"remove", "build"}) ~> (cap.pc \in {"write", "done"})

\* The third build of a run still fails the check, and the loop is left
\* for writeToDB.
C27_Witness ==
    /\ cap.pc = "write"
    /\ Len(cap.traces) = Attempts
    /\ cap.remainingAttempts = 0
    /\ ~Passes(cap.traces[Attempts])

\* What has happened in an executor run implies the steps before it.
StepOrder ==
    /\ rep.importcfgRead => rep.lookup = "ok"
    /\ rep.importcfgFile => rep.importcfgRead
    /\ rep.binaryFile => rep.importcfgRead
    /\ rep.argsBuilt => rep.binaryFile
    /\ rep.linkerRan => (rep.argsBuilt /\ rep.binaryFile)
    /\ (rep.importcfgRead /\ ~rep.importcfgFile) =>
        (rep.linkerRan /\ rep.linkerExit = SuccessExit)
    /\ rep.handedOff =>
        /\ rep.linkerRan
        /\ rep.linkerExit = SuccessExit
        /\ rep.importcfgRead /\ ~rep.importcfgFile
        /\ rep.binaryFile
        /\ rep.exec.argv = <<rep.config.binaryName>> \o rep.config.args
        /\ rep.exec.env = Environ
    /\ ~rep.handedOff => rep.exec.argv = <<>>

\* C28: in an executor run the lookup comes before the temporary importcfg
\* file, that file before the temporary binary, the binary before the
\* linker, the linker before the removal of the importcfg file and the
\* removal before the handoff; the handoff follows a linker that exited
\* with status 0, passes the program name with the caller's trailing
\* arguments and the environment of the executor, and the temporary binary
\* is never removed during the run.
C28_ReplayStepsInOrder ==
    /\ []StepOrder
    /\ [][ (rep.binaryFile /\ ~rep'.binaryFile) =>
                (rep.pc = "done" /\ rep'.lookup = "none") ]_vars

\* A run handed off to the linked binary with a trailing argument.
C28_Witness ==
    /\ rep.handedOff
    /\ rep.exec.argv = <<Program, <<"arg">> >>
    /\ rep.exec.env = Environ
    /\ rep.binaryFile /\ ~rep.importcfgFile

\* C29: when the cache holds, for the key of an executor run, a link
\* command without main package (main_package_id is NULL), the lookup of
\* the run returns that link command and the run does not end with a query
\* error.
C29_NoEntryArtifactIsFound ==
    (rep.config.status = "ok" /\ rep.lookup # "none") =>
        \A lc \in rep.snap.link_command :
            ( /\ lc.main_package_id = NULL
              /\ lc.binary_name = rep.config.binaryName
              /\ \E bt \in rep.snap.build_tags :
                    /\ bt.build_tags_id = lc.build_tags_id
                    /\ bt.tags = Fingerprint(rep.config).tags ) =>
                /\ rep.lookup = "ok"
                /\ rep.linkCommandID = lc.link_command_id
                /\ rep.outcome # "query"

\* C30: for every tag argument, the empty string and the absence of the
\* flag included, the executor derives the canonical tag array that the
\* interceptor derived from the same argument, and its lookup after the
\* interceptor's commit is not a cache miss.
C30_SameTagsAreFound ==
    (cap.pc = "done" /\ cap.outcome = "ok" /\ rep.lookup # "none") =>
        /\ Fingerprint(rep.config) = Fingerprint(cap.config)
        /\ rep.lookup # "norows"

=============================================================================
